---- MODULE Spec2Model ----
(***************************************************************************)
(* Course artifact graph (rag_ed.graphs.course.CourseGraph, a thin wrapper *)
(* over networkx.DiGraph) and its bounded breadth-first retriever          *)
(* (rag_ed.retrievers.graph.GraphRetriever).                               *)
(*                                                                         *)
(* networkx.DiGraph keeps a dict node -> attribute dict and, per node, an  *)
(* insertion-ordered dict of successors.  add_node(n, document=d) creates  *)
(* n or updates its attributes; add_edge(u, v) creates u and v with EMPTY  *)
(* attribute dicts when they are missing, and records v among u's          *)
(* successors at the position of its first insertion.                      *)
(***************************************************************************)
EXTENDS Integers, Sequences, FiniteSets, TLC

\* ---------------------------------------------------------------- bounds
\* Artifact identifiers are opaque strings in the program; the model names
\* them 1..NumIds.  The code never compares identifiers except for equality,
\* so mutations introduce identifiers in increasing order (a graph that
\* introduces them in another order is a renaming of one that does).
NumIds == 5
\* Identifiers that the mutations of the general API specification may name.
MaxNodes == 3
\* Distinct edges a graph may hold.
MaxEdges == 3
\* Largest max_depth override passed to retrieve.
MaxDepth == 3
\* Distinct edges of a graph of the traversal-order specification.
MaxLinks == 4
\* Longest document sequence handed to the graph builder.
MaxDocs == 3
\* Most members of a zip file.
MaxMembers == 2
\* Most completed constructions of a VectorStoreRetriever.
MaxConstructions == 3
\* Versions of the course exports.
MaxExports == 2
\* Most pages the Canvas server links from an endpoint's first URL.
MaxPages == 2
\* Most items on a page.
MaxItems == 2
\* The count of requests of one _get call stops growing here.
MaxAttempts == 3
\* Most words and separators a query to the agent is made of.
MaxPieces == 5
\* Most documents the vector store returns for a sub-query.
MaxHits == 2
\* Most VectorStoreRetriever instances the agent module may construct.
MaxInstances == 2

Ids == 1..NumIds

\* langchain_core.documents.Document: page_content and metadata.  A metadata
\* key is <<>> when the dict has no such key and <<value>> when it has.
Document(content, source, timestamp) ==
    [page_content |-> content,
     metadata |-> [source |-> source, timestamp |-> timestamp]]

\* Document(page_content=c), as the graph's callers and tests build them.
Docs == {Document("A", <<>>, <<>>), Document("B", <<>>, <<>>)}
\* The max_depth argument of retrieve: None, or <<k>> for the integer k.
None == <<>>
DepthArgs == {None} \cup {<<k>> : k \in -1..MaxDepth}

VARIABLES
    graph,      \* CourseGraph._graph: nodes, their "document" attribute, adjacency
    edgeLog,    \* history: the distinct edges in order of first insertion
    self_max_depth, \* GraphRetriever._max_depth
    pc,         \* "idle", "loop" (inside retrieve's while), "returned", "raised"
    op,         \* the call that produced pc: "none", "neighbors", "retrieve",
                \* "add_artifact", "_get_relevant_documents"
    arg,        \* artifact_id of that call (0 when none)
    depth,      \* retrieve's local depth
    visited,    \* retrieve's local visited
    queue,      \* retrieve's local queue: Seq of <<node, d>>
    docs,       \* retrieve's local docs
    order,      \* history: the node whose document each entry of docs is
    result,     \* the list returned
    error,      \* the exception raised
    documents,  \* the document sequence handed to the graph builder
    prefix,     \* the builder's prefix argument
    built,      \* whether _graph_from_documents has returned graph
    second,     \* <<g>> for the graph g a second call of the builder returned
    zpc,        \* extract_zip_to_temp: "idle", "with", "extracting", "processing",
                \* "leaving", "unwinding", "returned", "raised"
    archive,    \* the zip file at zip_path: whether it opens, and its members
    extracted,  \* how many members extractall has written
    temp_dir,   \* whether the temporary directory exists
    temp_files, \* the files inside the temporary directory
    zvalue,     \* <<v>> once process has returned v
    zresult,    \* <<v>> once extract_zip_to_temp has returned v
    vpc,        \* VectorStoreRetriever.__init__: "idle", "checked", "branch",
                \* "built", "done", "raised"
    params,     \* the arguments of the construction in progress
    exports,    \* the version of the documents the loaders return
    persist_dir,\* <<>> when persist_directory does not exist, else <<index>>
    vector_store, \* <<index>>: the store of the retriever last constructed
    did,        \* what the construction in progress has done so far
    constructions, \* history: what each completed construction did
    cpc,        \* CanvasAPILoader.load: "idle", "get", "response", "page",
                \* "extend", "returned", "raised"
    endpoint,   \* which _load_endpoint call load is in: 1, 2, 3 (0 when none)
    url,        \* _load_endpoint's url: the page it names, 0 for None
    cparams,    \* whether _load_endpoint's params is not None
    edocs,      \* _load_endpoint's documents
    cdocs,      \* load's documents
    response,   \* <<r>> for the response requests.get returned last
    applied,    \* how often _respect_rate_limits ran on that response
    slept,      \* the arguments of the time.sleep calls made for it
    attempts,   \* requests the current _get call has issued (saturating)
    served,     \* history: the pages answered with a success status
    cerror,     \* the exception load ended with
    apc,        \* run_agent / _get_retriever: "idle", "returned", "raised"
    aop,        \* the call that produced apc
    env,        \* os.environ: CANVAS_PATH and PIAZZA_PATH
    cache,      \* _RETRIEVER: 0 for None, else the instance
    instances,  \* how many VectorStoreRetriever instances were constructed
    env_read,   \* whether the last call read the environment
    aquery,     \* the argument of the last run_agent call
    calls,      \* the retriever.retrieve calls the last run_agent made
    text,       \* what run_agent returned
    aerror      \* the exception the last call raised

graphVars == <<graph, edgeLog>>
callVars == <<pc, op, arg, depth, visited, queue, docs, order, result, error>>
buildVars == <<documents, prefix, built, second>>
zipVars == <<zpc, archive, extracted, temp_dir, temp_files, zvalue, zresult>>
storeVars == <<vpc, params, exports, persist_dir, vector_store, did, constructions>>
canvasVars == <<cpc, endpoint, url, cparams, edocs, cdocs, response, applied,
                slept, attempts, served, cerror>>
agentVars == <<apc, aop, env, cache, instances, env_read, aquery, calls, text, aerror>>
otherVars == <<zipVars, storeVars, canvasVars, agentVars>>
vars == <<graphVars, self_max_depth, callVars, buildVars, otherVars>>

\* ------------------------------------------------------------ the graph
\* nx.DiGraph(): nodes is the key set of the node dict; document[n] is <<d>>
\* when n's attribute dict has the key "document" and <<>> when it has not;
\* adj[n] lists n's successors in insertion order.
EmptyGraph ==
    [nodes |-> {},
     document |-> [i \in Ids |-> <<>>],
     adj |-> [i \in Ids |-> <<>>]]

Range(s) == {s[i] : i \in 1..Len(s)}

\* The sequences over S of length at most n.
SeqsUpTo(S, n) == UNION {[1..k -> S] : k \in 0..n}

\* artifact_id in self._graph
HasNode(g, id) == id \in g.nodes

\* self._graph.nodes[n]["document"] raises KeyError('document')
LacksDocument(g, n) == g.document[n] = <<>>

\* self._graph.nodes[n]["document"]
DocumentOf(g, n) == g.document[n][1]

EdgeSet(g) == UNION {{<<u, v>> : v \in Range(g.adj[u])} : u \in Ids}

\* the attributes of a node that exists are left alone
add_artifact_KeepFirst(g, id, d) ==
    IF id \in g.nodes /\ g.document[id] # <<>> THEN g
    ELSE [g EXCEPT !.nodes = @ \cup {id}, !.document[id] = <<d>>]

\* remove_node then add_node: the edges into and out of id are lost
add_artifact_Reinsert(g, id, d) ==
    [g EXCEPT !.nodes = @ \cup {id},
              !.document[id] = <<d>>,
              !.adj = [n \in Ids |->
                          IF n = id THEN <<>>
                          ELSE SelectSeq(@[n], LAMBDA x : x # id)]]

\* CourseGraph.add_artifact: DiGraph.add_node(artifact_id, document=document)
add_artifact(g, id, d) ==
    [g EXCEPT !.nodes = @ \cup {id}, !.document[id] = <<d>>]

\* CourseGraph.add_relationship: DiGraph.add_edge(source_id, target_id)
add_relationship(g, s, t) ==
    [g EXCEPT !.nodes = @ \cup {s, t},
              !.adj[s] = IF t \in Range(@) THEN @ ELSE Append(@, t)]

\* The exceptions the two read operations raise.
NoError == [type |-> "none", key |-> "", id |-> 0]
\* KeyError(f"Artifact ID '{artifact_id}' not found in graph.")
NotFound(id) == [type |-> "KeyError", key |-> "Artifact ID '{}' not found in graph.", id |-> id]
\* KeyError('document'): the subscript ["document"] on an attribute dict without it
MissingDocument == [type |-> "KeyError", key |-> "document", id |-> 0]

\* [self._graph.nodes[n]["document"] for n in self._graph.neighbors(artifact_id)]
neighbors(g, id) ==
    IF ~HasNode(g, id) THEN [raised |-> TRUE, error |-> NotFound(id), docs |-> <<>>]
    ELSE IF \E n \in Range(g.adj[id]) : LacksDocument(g, n)
         THEN [raised |-> TRUE, error |-> MissingDocument, docs |-> <<>>]
         ELSE [raised |-> FALSE, error |-> NoError,
               docs |-> [i \in 1..Len(g.adj[id]) |-> DocumentOf(g, g.adj[id][i])]]

\* --------------------------------------------------------- the retriever
\* Variants of the loop body that the properties below must tell apart.
\* `if neighbor in visited: continue` left out.
RECURSIVE ForNeighbors_NoVisitedCheck(_, _, _, _)
ForNeighbors_NoVisitedCheck(g, nbrs, d, st) ==
    IF nbrs = <<>> THEN st
    ELSE LET n == Head(nbrs)
             seen == [st EXCEPT !.visited = @ \cup {n},
                                !.queue = Append(@, <<n, d + 1>>)]
         IN IF LacksDocument(g, n)
            THEN [seen EXCEPT !.raised = TRUE]
            ELSE ForNeighbors_NoVisitedCheck(g, Tail(nbrs), d,
                     [seen EXCEPT !.docs = Append(@, DocumentOf(g, n)),
                                  !.order = Append(@, n)])

\* docs.insert(0, ...) in place of docs.append(...)
RECURSIVE ForNeighbors_Prepend(_, _, _, _)
ForNeighbors_Prepend(g, nbrs, d, st) ==
    IF nbrs = <<>> THEN st
    ELSE LET n == Head(nbrs) IN
         IF n \in st.visited THEN ForNeighbors_Prepend(g, Tail(nbrs), d, st)
         ELSE LET seen == [st EXCEPT !.visited = @ \cup {n},
                                     !.queue = Append(@, <<n, d + 1>>)]
              IN IF LacksDocument(g, n)
                 THEN [seen EXCEPT !.raised = TRUE]
                 ELSE ForNeighbors_Prepend(g, Tail(nbrs), d,
                          [seen EXCEPT !.docs = <<DocumentOf(g, n)>> \o @,
                                       !.order = <<n>> \o @])

\* the neighbours taken from the last inserted to the first
RECURSIVE ForNeighbors_Reversed(_, _, _, _)
ForNeighbors_Reversed(g, nbrs, d, st) ==
    IF nbrs = <<>> THEN st
    ELSE LET n == nbrs[Len(nbrs)]
             rest == SubSeq(nbrs, 1, Len(nbrs) - 1)
         IN IF n \in st.visited THEN ForNeighbors_Reversed(g, rest, d, st)
            ELSE LET seen == [st EXCEPT !.visited = @ \cup {n},
                                        !.queue = Append(@, <<n, d + 1>>)]
                 IN IF LacksDocument(g, n)
                    THEN [seen EXCEPT !.raised = TRUE]
                    ELSE ForNeighbors_Reversed(g, rest, d,
                             [seen EXCEPT !.docs = Append(@, DocumentOf(g, n)),
                                          !.order = Append(@, n)])

\* The body of `for neighbor in self._graph.graph.neighbors(node)` applied to
\* the rest of the neighbour list; st carries the locals.  The subscript
\* ["document"] is evaluated after visited.add and queue.append.
RECURSIVE ForNeighbors(_, _, _, _)
ForNeighbors(g, nbrs, d, st) ==
    IF nbrs = <<>> THEN st
    ELSE LET n == Head(nbrs) IN
         IF n \in st.visited THEN ForNeighbors(g, Tail(nbrs), d, st)
         ELSE LET seen == [st EXCEPT !.visited = @ \cup {n},
                                     !.queue = Append(@, <<n, d + 1>>)]
              IN IF LacksDocument(g, n)
                 THEN [seen EXCEPT !.raised = TRUE]
                 ELSE ForNeighbors(g, Tail(nbrs), d,
                          [seen EXCEPT !.docs = Append(@, DocumentOf(g, n)),
                                       !.order = Append(@, n)])

\* queue[0] read without popleft
WhileBody_NoPop(g, dep, st) ==
    LET node == Head(st.queue)[1]
        d == Head(st.queue)[2]
    IN IF d >= dep THEN st ELSE ForNeighbors(g, g.adj[node], d, st)

\* One iteration of `while queue`: popleft, the depth test, the for loop.
WhileBody(g, dep, st) ==
    LET node == Head(st.queue)[1]
        d == Head(st.queue)[2]
        popped == [st EXCEPT !.queue = Tail(@)]
    IN IF d >= dep THEN popped ELSE ForNeighbors(g, g.adj[node], d, popped)

\* `while queue:` run until the queue is empty or the body raises
RECURSIVE While(_, _, _)
While(g, dep, st) ==
    IF st.queue = <<>> \/ st.raised THEN st
    ELSE While(g, dep, WhileBody(g, dep, st))

\* without an override the depth is 1, whatever the retriever was given
retrieve_DefaultOne(g, configured, id, max_depth) ==
    IF ~HasNode(g, id)
    THEN [raised |-> TRUE, error |-> NotFound(id), depth |-> 0, visited |-> {},
          queue |-> <<>>, docs |-> <<>>, order |-> <<>>]
    ELSE LET dep == IF max_depth # None THEN max_depth[1] ELSE 1
             fin == While(g, dep, [visited |-> {id}, queue |-> << <<id, 0>> >>,
                                   docs |-> <<>>, order |-> <<>>, raised |-> FALSE])
         IN [raised |-> fin.raised,
             error |-> IF fin.raised THEN MissingDocument ELSE NoError,
             depth |-> dep, visited |-> fin.visited, queue |-> fin.queue,
             docs |-> fin.docs, order |-> fin.order]

\* the seed left out of visited
retrieve_SeedNotVisited(g, configured, id, max_depth) ==
    IF ~HasNode(g, id)
    THEN [raised |-> TRUE, error |-> NotFound(id), depth |-> 0, visited |-> {},
          queue |-> <<>>, docs |-> <<>>, order |-> <<>>]
    ELSE LET dep == IF max_depth # None THEN max_depth[1] ELSE configured
             fin == While(g, dep, [visited |-> {}, queue |-> << <<id, 0>> >>,
                                   docs |-> <<>>, order |-> <<>>, raised |-> FALSE])
         IN [raised |-> fin.raised,
             error |-> IF fin.raised THEN MissingDocument ELSE NoError,
             depth |-> dep, visited |-> fin.visited, queue |-> fin.queue,
             docs |-> fin.docs, order |-> fin.order]

\* depth = max_depth or self._max_depth: an override of 0 taken as absent
retrieve_FalsyOverride(g, configured, id, max_depth) ==
    IF ~HasNode(g, id)
    THEN [raised |-> TRUE, error |-> NotFound(id), depth |-> 0, visited |-> {},
          queue |-> <<>>, docs |-> <<>>, order |-> <<>>]
    ELSE LET dep == IF max_depth # None /\ max_depth # <<0>> THEN max_depth[1]
                    ELSE configured
             fin == While(g, dep, [visited |-> {id}, queue |-> << <<id, 0>> >>,
                                   docs |-> <<>>, order |-> <<>>, raised |-> FALSE])
         IN [raised |-> fin.raised,
             error |-> IF fin.raised THEN MissingDocument ELSE NoError,
             depth |-> dep, visited |-> fin.visited, queue |-> fin.queue,
             docs |-> fin.docs, order |-> fin.order]

\* GraphRetriever.retrieve(id, max_depth=max_depth) of a retriever configured
\* with max_depth=configured: how it ends, and its locals at that point
retrieve(g, configured, id, max_depth) ==
    IF ~HasNode(g, id)
    THEN [raised |-> TRUE, error |-> NotFound(id), depth |-> 0, visited |-> {},
          queue |-> <<>>, docs |-> <<>>, order |-> <<>>]
    ELSE LET dep == IF max_depth # None THEN max_depth[1] ELSE configured
             fin == While(g, dep, [visited |-> {id}, queue |-> << <<id, 0>> >>,
                                   docs |-> <<>>, order |-> <<>>, raised |-> FALSE])
         IN [raised |-> fin.raised,
             error |-> IF fin.raised THEN MissingDocument ELSE NoError,
             depth |-> dep, visited |-> fin.visited, queue |-> fin.queue,
             docs |-> fin.docs, order |-> fin.order]

Locals == [visited |-> visited, queue |-> queue, docs |-> docs, order |-> order,
           raised |-> FALSE]

\* ----------------------------------------------------------- the builder
\* A source string is a sequence of tokens, "/" or a name.  pathlib.Path
\* keeps whether the string is anchored at the root and its names without
\* the "." ones and without empty ones (".." is kept).
RECURSIVE PathParts(_)
PathParts(src) ==
    IF src = <<>> THEN <<>>
    ELSE IF Head(src) \in {"/", "."} THEN PathParts(Tail(src))
         ELSE <<Head(src)>> \o PathParts(Tail(src))

Path(src) == [root |-> src # <<>> /\ Head(src) = "/", parts |-> PathParts(src)]

\* Path.parent: the last name dropped; "." and "/" are their own parents.
PathParent(p) ==
    IF p.parts = <<>> THEN p
    ELSE [p EXCEPT !.parts = SubSeq(@, 1, Len(@) - 1)]

\* Path(doc.metadata.get("source", ".")).parent
SourceParent(doc) ==
    PathParent(Path(IF doc.metadata.source = <<>> THEN <<".">>
                    ELSE doc.metadata.source[1]))

\* a default key that sorts behind every timestamp
TimestampKey_DefaultLast(doc) ==
    IF doc.metadata.timestamp = <<>> THEN <<127>> ELSE doc.metadata.timestamp[1]

\* doc.metadata.get("timestamp", ""): a string is the sequence of its
\* characters' code points
TimestampKey(doc) ==
    IF doc.metadata.timestamp = <<>> THEN <<>> ELSE doc.metadata.timestamp[1]

\* str.__lt__: lexicographic comparison by code point
RECURSIVE StrLess(_, _)
StrLess(a, b) ==
    IF b = <<>> THEN FALSE
    ELSE IF a = <<>> THEN TRUE
    ELSE IF Head(a) # Head(b) THEN Head(a) < Head(b)
    ELSE StrLess(Tail(a), Tail(b))

\* one identifier per distinct document instead of one per position
node_id_ByDocument(p, idx) ==
    IF idx < Len(documents)
    THEN CHOOSE k \in 1..Len(documents) :
            /\ documents[k] = documents[idx + 1]
            /\ \A j \in 1..(k - 1) : documents[j] # documents[idx + 1]
    ELSE idx + 1

\* identifiers drawn from a counter that outlives the call
node_id_Counter(p, idx) == idx + 1 + (IF built THEN 1 ELSE 0)

\* f"{prefix}_{idx}": within one build the prefix is fixed, and the graph's
\* identifier idx + 1 stands for the string made of the prefix and idx.
node_id(p, idx) == idx + 1

\* for idx, doc in enumerate(documents): graph.add_artifact(node_id, doc)
RECURSIVE AddNodes(_, _, _, _)
AddNodes(g, p, ds, idx) ==
    IF idx >= Len(ds) THEN g
    ELSE AddNodes(add_artifact(g, node_id(p, idx), ds[idx + 1]), p, ds, idx + 1)

\* every node in one group, whatever its source
GroupAppend_OneGroup(grouped, key, n) ==
    IF grouped = <<>> THEN <<[key |-> key, nodes |-> <<n>>]>>
    ELSE <<[grouped[1] EXCEPT !.nodes = Append(@, n)]>>

\* grouped[source.parent].append(node_id): a dict in insertion order of its
\* keys, modelled as a sequence of [key, nodes]
GroupAppend(grouped, key, n) ==
    IF \E i \in 1..Len(grouped) : grouped[i].key = key
    THEN [i \in 1..Len(grouped) |->
            IF grouped[i].key = key
            THEN [grouped[i] EXCEPT !.nodes = Append(@, n)]
            ELSE grouped[i]]
    ELSE Append(grouped, [key |-> key, nodes |-> <<n>>])

RECURSIVE GroupNodes(_, _, _)
GroupNodes(g, node_ids, grouped) ==
    IF node_ids = <<>> THEN grouped
    ELSE GroupNodes(g, Tail(node_ids),
             GroupAppend(grouped, SourceParent(DocumentOf(g, Head(node_ids))),
                         Head(node_ids)))

\* The list without sorting.
SortedByTimestamp_Unsorted(g, nodes) == nodes

\* a sort that is not stable: a node goes in front of the nodes already
\* placed whose key equals its own
RECURSIVE SortedByTimestamp_TiesReversed(_, _)
SortedByTimestamp_TiesReversed(g, nodes) ==
    IF nodes = <<>> THEN <<>>
    ELSE LET front == SortedByTimestamp_TiesReversed(g, SubSeq(nodes, 1, Len(nodes) - 1))
             x == nodes[Len(nodes)]
             kx == TimestampKey(DocumentOf(g, x))
             keep == {i \in 1..Len(front) :
                        StrLess(TimestampKey(DocumentOf(g, front[i])), kx)}
             k == IF keep = {} THEN 0
                  ELSE CHOOSE i \in keep : \A j \in keep : j <= i
         IN SubSeq(front, 1, k) \o <<x>> \o SubSeq(front, k + 1, Len(front))

\* sorted(nodes, key=timestamp): a stable sort; each node goes behind the
\* nodes already placed whose key is not greater than its own.
RECURSIVE SortedByTimestamp(_, _)
SortedByTimestamp(g, nodes) ==
    IF nodes = <<>> THEN <<>>
    ELSE LET front == SortedByTimestamp(g, SubSeq(nodes, 1, Len(nodes) - 1))
             x == nodes[Len(nodes)]
             kx == TimestampKey(DocumentOf(g, x))
             keep == {i \in 1..Len(front) :
                        ~StrLess(kx, TimestampKey(DocumentOf(g, front[i])))}
             k == IF keep = {} THEN 0
                  ELSE CHOOSE i \in keep : \A j \in keep : j <= i
         IN SubSeq(front, 1, k) \o <<x>> \o SubSeq(front, k + 1, Len(front))

\* graph.add_relationship(dst, src): every link backwards
RECURSIVE LinkPairs_Backwards(_, _)
LinkPairs_Backwards(st, sorted_nodes) ==
    IF Len(sorted_nodes) < 2 THEN st
    ELSE LET src == sorted_nodes[1]
             dst == sorted_nodes[2]
         IN LinkPairs_Backwards(
                [graph |-> add_relationship(st.graph, dst, src),
                 log |-> IF <<dst, src>> \in Range(st.log) THEN st.log
                         ELSE Append(st.log, <<dst, src>>)],
                Tail(sorted_nodes))

\* every node linked from the first of the sorted list
RECURSIVE LinkPairs_FromFirst(_, _)
LinkPairs_FromFirst(st, sorted_nodes) ==
    IF Len(sorted_nodes) < 2 THEN st
    ELSE LET src == sorted_nodes[1]
             dst == sorted_nodes[2]
         IN LinkPairs_FromFirst(
                [graph |-> add_relationship(st.graph, src, dst),
                 log |-> IF <<src, dst>> \in Range(st.log) THEN st.log
                         ELSE Append(st.log, <<src, dst>>)],
                <<src>> \o SubSeq(sorted_nodes, 3, Len(sorted_nodes)))

\* for src, dst in pairwise(sorted_nodes): graph.add_relationship(src, dst)
RECURSIVE LinkPairs(_, _)
LinkPairs(st, sorted_nodes) ==
    IF Len(sorted_nodes) < 2 THEN st
    ELSE LET src == sorted_nodes[1]
             dst == sorted_nodes[2]
         IN LinkPairs([graph |-> add_relationship(st.graph, src, dst),
                       log |-> IF <<src, dst>> \in Range(st.log) THEN st.log
                               ELSE Append(st.log, <<src, dst>>)],
                      Tail(sorted_nodes))

\* for nodes in grouped.values(): sort, then link
RECURSIVE LinkGroups(_, _)
LinkGroups(st, groups) ==
    IF groups = <<>> THEN st
    ELSE LinkGroups(LinkPairs(st, SortedByTimestamp(st.graph, Head(groups).nodes)),
                    Tail(groups))

\* _graph_from_documents(documents, prefix=p): the graph and, as history,
\* the order in which its edges were inserted
graph_from_documents(ds, p) ==
    LET g == AddNodes(EmptyGraph, p, ds, 0)
        node_ids == [i \in 1..Len(ds) |-> node_id(p, i - 1)]
        grouped == GroupNodes(g, node_ids, <<>>)
    IN LinkGroups([graph |-> g, log |-> <<>>], grouped)

\* ------------------------------------------------------------------ Init
NoCall ==
    /\ pc = "idle" /\ op = "none" /\ arg = 0 /\ depth = 0
    /\ visited = {} /\ queue = <<>> /\ docs = <<>> /\ order = <<>>
    /\ result = <<>> /\ error = NoError

NoZip ==
    /\ zpc = "idle" /\ archive = <<>> /\ extracted = 0
    /\ temp_dir = FALSE /\ temp_files = {} /\ zvalue = <<>> /\ zresult = <<>>

NoStore ==
    /\ vpc = "idle" /\ params = <<>> /\ exports = 1 /\ persist_dir = <<>>
    /\ vector_store = <<>> /\ did = <<>> /\ constructions = <<>>

NoCanvas ==
    /\ cpc = "idle" /\ endpoint = 0 /\ url = 0 /\ cparams = FALSE
    /\ edocs = <<>> /\ cdocs = <<>> /\ response = <<>> /\ applied = 0
    /\ slept = <<>> /\ attempts = 0 /\ served = <<>> /\ cerror = "none"

Unset == [CANVAS_PATH |-> <<>>, PIAZZA_PATH |-> <<>>]

NoAgent ==
    /\ apc = "idle" /\ aop = "none" /\ env = Unset /\ cache = 0 /\ instances = 0
    /\ env_read = FALSE /\ aquery = <<>> /\ calls = <<>> /\ text = <<>>
    /\ aerror = "none"

NoOther == NoZip /\ NoStore /\ NoCanvas /\ NoAgent

NoBuild == documents = <<>> /\ prefix = "" /\ built = FALSE /\ second = <<>>

Init ==
    /\ graph = EmptyGraph
    /\ edgeLog = <<>>
    /\ self_max_depth = 1
    /\ NoCall
    /\ NoOther
    /\ NoBuild

\* ---------------------------------------------------------------- actions
\* The caller is between calls: the previous call's locals and result are gone.
Forget ==
    /\ pc' = "idle" /\ op' = "none" /\ arg' = 0 /\ depth' = 0
    /\ visited' = {} /\ queue' = <<>> /\ docs' = <<>> /\ order' = <<>>
    /\ result' = <<>> /\ error' = NoError

AddArtifact(id, d) ==
    /\ pc = "idle"
    /\ graph' = add_artifact(graph, id, d)
    /\ UNCHANGED <<edgeLog, self_max_depth, otherVars, callVars, buildVars>>

AddRelationship(s, t) ==
    /\ pc = "idle"
    /\ graph' = add_relationship(graph, s, t)
    /\ edgeLog' = IF <<s, t>> \in Range(edgeLog) THEN edgeLog
                  ELSE Append(edgeLog, <<s, t>>)
    /\ UNCHANGED <<self_max_depth, otherVars, callVars, buildVars>>

\* a neighbors that consumes the successors it returns
Neighbors_Drains(id) ==
    /\ pc = "idle"
    /\ LET r == neighbors(graph, id) IN
        /\ pc' = IF r.raised THEN "raised" ELSE "returned"
        /\ result' = r.docs
        /\ error' = r.error
    /\ op' = "neighbors" /\ arg' = id
    /\ graph' = [graph EXCEPT !.adj[id] = <<>>]
    /\ UNCHANGED <<edgeLog, self_max_depth, otherVars, buildVars, depth, visited, queue, docs, order>>

Neighbors(id) ==
    /\ pc = "idle"
    /\ LET r == neighbors(graph, id) IN
        /\ pc' = IF r.raised THEN "raised" ELSE "returned"
        /\ result' = r.docs
        /\ error' = r.error
    /\ op' = "neighbors" /\ arg' = id
    /\ UNCHANGED <<graphVars, self_max_depth, otherVars, buildVars, depth, visited, queue, docs, order>>

\* A whole call of retrieve.
Retrieve(id, max_depth) ==
    /\ pc = "idle"
    /\ LET r == retrieve(graph, self_max_depth, id, max_depth) IN
        /\ pc' = IF r.raised THEN "raised" ELSE "returned"
        /\ error' = r.error
        /\ depth' = r.depth
        /\ visited' = r.visited
        /\ queue' = r.queue
        /\ docs' = r.docs
        /\ order' = r.order
        /\ result' = IF r.raised THEN <<>> ELSE r.docs
    /\ op' = "retrieve" /\ arg' = id
    /\ UNCHANGED <<graphVars, self_max_depth, otherVars, buildVars>>

\* The same call taken one loop iteration at a time.
\* retrieve up to the first test of `while queue`
RetrieveCall(id, max_depth) ==
    /\ pc = "idle"
    /\ op' = "retrieve" /\ arg' = id
    /\ IF ~HasNode(graph, id)
       THEN /\ pc' = "raised" /\ error' = NotFound(id)
            /\ UNCHANGED <<depth, visited, queue>>
       ELSE /\ pc' = "loop" /\ error' = NoError
            /\ depth' = IF max_depth # None THEN max_depth[1] ELSE self_max_depth
            /\ visited' = {id}
            /\ queue' = << <<id, 0>> >>
    /\ UNCHANGED <<graphVars, self_max_depth, otherVars, buildVars, docs, order, result>>

\* one iteration of `while queue`
RetrieveStep ==
    /\ pc = "loop"
    /\ queue # <<>>
    /\ LET st == WhileBody(graph, depth, Locals)
       IN /\ visited' = st.visited
          /\ queue' = st.queue
          /\ docs' = st.docs
          /\ order' = st.order
          /\ pc' = IF st.raised THEN "raised" ELSE "loop"
          /\ error' = IF st.raised THEN MissingDocument ELSE NoError
    /\ UNCHANGED <<graphVars, self_max_depth, otherVars, buildVars, op, arg, depth, result>>

\* `while queue` is false: return docs
RetrieveReturn ==
    /\ pc = "loop"
    /\ queue = <<>>
    /\ pc' = "returned"
    /\ result' = docs
    /\ UNCHANGED <<graphVars, self_max_depth, otherVars, buildVars, op, arg, depth, visited,
                   queue, docs, order, error>>

\* The caller takes the list or the exception; the call's frame is dropped.
Resume ==
    /\ pc \in {"returned", "raised"}
    /\ Forget
    /\ UNCHANGED <<graphVars, self_max_depth, otherVars, buildVars>>

\* The model's cap on the number of distinct edges.
Room(log, s, t, k) == <<s, t>> \in Range(log) \/ Len(log) < k

\* Identifiers a mutation may name: those of the graph and the least unused.
Nameable(N) == {i \in 1..MaxNodes : \A j \in 1..(i - 1) : j \in N}

Next ==
    \/ \E id \in Nameable(graph.nodes), d \in Docs : AddArtifact(id, d)
    \/ /\ pc = "idle"
       /\ \E s \in Nameable(graph.nodes) :
             \E t \in Nameable(graph.nodes \cup {s}) :
                 AddRelationship(s, t) /\ Room(edgeLog, s, t, MaxEdges)
    \/ \E id \in 1..MaxNodes : Neighbors(id)
    \/ \E id \in 1..MaxNodes, m \in DepthArgs : Retrieve(id, m)
    \/ Resume

Spec == Init /\ [][Next]_vars

\* The same graphs with retrieve taken one loop iteration at a time.  A
\* synchronous call keeps running: its loop step and its return are fair.
NextSteps ==
    \/ \E id \in Nameable(graph.nodes), d \in Docs : AddArtifact(id, d)
    \/ /\ pc = "idle"
       /\ \E s \in Nameable(graph.nodes) :
             \E t \in Nameable(graph.nodes \cup {s}) :
                 AddRelationship(s, t) /\ Room(edgeLog, s, t, MaxEdges)
    \/ \E id \in 1..MaxNodes, m \in DepthArgs : RetrieveCall(id, m)
    \/ RetrieveStep
    \/ RetrieveReturn
    \/ Resume

SpecSteps ==
    Init /\ [][NextSteps]_vars /\ WF_vars(RetrieveStep) /\ WF_vars(RetrieveReturn)

\* add_artifact as a call the caller waits for: it returns None.
AddArtifactCall(id, d) ==
    /\ pc = "idle"
    /\ graph' = add_artifact(graph, id, d)
    /\ op' = "add_artifact" /\ arg' = id
    /\ pc' = "returned" /\ result' = <<>> /\ error' = NoError
    /\ UNCHANGED <<edgeLog, self_max_depth, otherVars, buildVars, depth, visited, queue, docs, order>>

NextUpsert ==
    \/ \E id \in Nameable(graph.nodes), d \in Docs : AddArtifactCall(id, d)
    \/ /\ pc = "idle"
       /\ \E s \in Nameable(graph.nodes) :
             \E t \in Nameable(graph.nodes \cup {s}) :
                 AddRelationship(s, t) /\ Room(edgeLog, s, t, MaxEdges)
    \/ Resume

SpecUpsert == Init /\ [][NextUpsert]_vars

\* ------------------------------------------- larger graphs, all documented
\* The state after add_artifact(i, d) for every identifier: the documents
\* alternate so that no ordering of the documents agrees with the identifiers.
InitDocumented ==
    /\ graph = [EmptyGraph EXCEPT
                    !.nodes = Ids,
                    !.document = [i \in Ids |->
                        <<Document(IF i % 2 = 1 THEN "B" ELSE "A", <<>>, <<>>)>>]]
    /\ edgeLog = <<>>
    /\ self_max_depth = 1
    /\ NoCall
    /\ NoOther
    /\ NoBuild

Touched(log) == {e[1] : e \in Range(log)} \cup {e[2] : e \in Range(log)}

\* Identifiers add_relationship may name: the endpoints so far and the least
\* identifier that is no endpoint yet.
Linkable(T) == {i \in Ids : \A j \in 1..(i - 1) : j \in T}

NextOrder ==
    \/ /\ pc = "idle"
       /\ \E s \in Linkable(Touched(edgeLog)) :
             \E t \in Linkable(Touched(edgeLog) \cup {s}) :
                 AddRelationship(s, t) /\ Room(edgeLog, s, t, MaxLinks)
    \/ \E id \in Ids, m \in DepthArgs : Retrieve(id, m)
    \/ Resume

SpecOrder == InitDocumented /\ [][NextOrder]_vars

\* ------------------------------------------- the retriever's configuration
\* GraphRetriever(graph) and GraphRetriever(graph, max_depth=k): max_depth
\* is 1 when not given.
ConfiguredDepths == {1} \cup 0..MaxDepth

InitConfigured ==
    /\ graph = [EmptyGraph EXCEPT
                    !.nodes = Ids,
                    !.document = [i \in Ids |->
                        <<Document(IF i % 2 = 1 THEN "B" ELSE "A", <<>>, <<>>)>>]]
    /\ edgeLog = <<>>
    /\ self_max_depth \in ConfiguredDepths
    /\ NoCall
    /\ NoOther
    /\ NoBuild

\* _get_relevant_documents(query): self.retrieve(query, max_depth=self._max_depth)
GetRelevantDocuments(query) ==
    /\ pc = "idle"
    /\ LET r == retrieve(graph, self_max_depth, query, <<self_max_depth>>) IN
        /\ pc' = IF r.raised THEN "raised" ELSE "returned"
        /\ error' = r.error
        /\ depth' = r.depth
        /\ visited' = r.visited
        /\ queue' = r.queue
        /\ docs' = r.docs
        /\ order' = r.order
        /\ result' = IF r.raised THEN <<>> ELSE r.docs
    /\ op' = "_get_relevant_documents" /\ arg' = query
    /\ UNCHANGED <<graphVars, self_max_depth, otherVars, buildVars>>

\* Seeds and queries: the identifiers of the graph and one that is absent.
Queries == Ids \cup {NumIds + 1}

NextQuery ==
    \/ /\ pc = "idle"
       /\ \E s \in Linkable(Touched(edgeLog)) :
             \E t \in Linkable(Touched(edgeLog) \cup {s}) :
                 AddRelationship(s, t) /\ Room(edgeLog, s, t, MaxEdges)
    \/ \E id \in Queries : Retrieve(id, None)
    \/ \E query \in Queries : GetRelevantDocuments(query)
    \/ Resume

SpecQuery == InitConfigured /\ [][NextQuery]_vars

\* retrieve with and without an override on a retriever of any configured
\* max_depth
NextOverride ==
    \/ /\ pc = "idle"
       /\ \E s \in Linkable(Touched(edgeLog)) :
             \E t \in Linkable(Touched(edgeLog) \cup {s}) :
                 AddRelationship(s, t) /\ Room(edgeLog, s, t, MaxEdges)
    \/ \E id \in Ids, m \in DepthArgs : Retrieve(id, m)
    \/ Resume

SpecOverride == InitConfigured /\ [][NextOverride]_vars

\* ------------------------------------------------- extract_zip_to_temp
\* A zip file either cannot be opened (missing, not a zip) or lists members;
\* a member is extracted whole or fails its check after its file was written.
MemberNames == {"dummy.txt", "d/x.txt"}
Members == {[name |-> n, good |-> b] : n \in MemberNames, b \in BOOLEAN}
Archives ==
    {[opens |-> FALSE, members |-> <<>>]}
        \cup {[opens |-> TRUE, members |-> ms] : ms \in SeqsUpTo(Members, MaxMembers)}
\* What the callback may return, and the files it may write for itself.
Values == {"r1", "r2"}
ScratchNames == {"scratch"}

\* with tempfile.TemporaryDirectory() as temp_dir: the directory is made
ExtractZipToTemp(a) ==
    /\ zpc = "idle"
    /\ zpc' = "with"
    /\ archive' = a
    /\ temp_dir' = TRUE
    /\ temp_files' = {}
    /\ extracted' = 0
    /\ zvalue' = <<>> /\ zresult' = <<>>
    /\ UNCHANGED <<graphVars, self_max_depth, callVars, buildVars, storeVars, canvasVars, agentVars>>

\* zipfile.ZipFile(zip_path, "r"): opens the file or raises
OpenZip ==
    /\ zpc = "with"
    /\ zpc' = IF archive.opens THEN "extracting" ELSE "unwinding"
    /\ UNCHANGED <<graphVars, self_max_depth, callVars, buildVars, storeVars, canvasVars, agentVars,
                   archive, extracted, temp_dir, temp_files, zvalue, zresult>>

\* zip_ref.extractall(temp_dir), one member at a time
ExtractMember ==
    /\ zpc = "extracting"
    /\ extracted < Len(archive.members)
    /\ LET m == archive.members[extracted + 1] IN
        /\ temp_files' = temp_files \cup {m.name}
        /\ IF m.good
           THEN extracted' = extracted + 1 /\ zpc' = "extracting"
           ELSE extracted' = extracted /\ zpc' = "unwinding"
    /\ UNCHANGED <<graphVars, self_max_depth, callVars, buildVars, storeVars, canvasVars, agentVars,
                   archive, temp_dir, zvalue, zresult>>

\* extractall is done and the zip closed: process(temp_dir) is called
CallProcess ==
    /\ zpc = "extracting"
    /\ extracted = Len(archive.members)
    /\ zpc' = "processing"
    /\ UNCHANGED <<graphVars, self_max_depth, callVars, buildVars, storeVars, canvasVars, agentVars,
                   archive, extracted, temp_dir, temp_files, zvalue, zresult>>

\* the callback writes a file of its own into the directory
ProcessWrite(f) ==
    /\ zpc = "processing"
    /\ f \notin temp_files
    /\ temp_files' = temp_files \cup {f}
    /\ UNCHANGED <<graphVars, self_max_depth, callVars, buildVars, storeVars, canvasVars, agentVars,
                   zpc, archive, extracted, temp_dir, zvalue, zresult>>

\* the callback returns v: `return process(temp_dir)` has its value
ProcessReturn(v) ==
    /\ zpc = "processing"
    /\ zpc' = "leaving"
    /\ zvalue' = <<v>>
    /\ UNCHANGED <<graphVars, self_max_depth, callVars, buildVars, storeVars, canvasVars, agentVars,
                   archive, extracted, temp_dir, temp_files, zresult>>

\* the callback raises
ProcessRaise ==
    /\ zpc = "processing"
    /\ zpc' = "unwinding"
    /\ UNCHANGED <<graphVars, self_max_depth, callVars, buildVars, storeVars, canvasVars, agentVars,
                   archive, extracted, temp_dir, temp_files, zvalue, zresult>>

\* the directory is never removed
ExitWith_KeepsDirectory ==
    /\ zpc \in {"leaving", "unwinding"}
    /\ zpc' = IF zpc = "leaving" THEN "returned" ELSE "raised"
    /\ zresult' = IF zpc = "leaving" THEN zvalue ELSE <<>>
    /\ UNCHANGED <<graphVars, self_max_depth, callVars, buildVars, storeVars, canvasVars, agentVars,
                   archive, extracted, temp_dir, temp_files, zvalue>>

\* TemporaryDirectory.__exit__: the directory and all it holds are removed,
\* then the value is returned or the exception goes on to the caller
ExitWith ==
    /\ zpc \in {"leaving", "unwinding"}
    /\ temp_dir' = FALSE
    /\ temp_files' = {}
    /\ zpc' = IF zpc = "leaving" THEN "returned" ELSE "raised"
    /\ zresult' = IF zpc = "leaving" THEN zvalue ELSE <<>>
    /\ UNCHANGED <<graphVars, self_max_depth, callVars, buildVars, storeVars, canvasVars, agentVars,
                   archive, extracted, zvalue>>

\* The caller goes on and may call again.
ZipResume ==
    /\ zpc \in {"returned", "raised"}
    /\ zpc' = "idle" /\ archive' = <<>> /\ extracted' = 0
    /\ zvalue' = <<>> /\ zresult' = <<>>
    /\ UNCHANGED <<graphVars, self_max_depth, callVars, buildVars, storeVars, canvasVars, agentVars,
                   temp_dir, temp_files>>

NextZip ==
    \/ \E a \in Archives : ExtractZipToTemp(a)
    \/ OpenZip
    \/ ExtractMember
    \/ CallProcess
    \/ \E f \in ScratchNames : ProcessWrite(f)
    \/ \E v \in Values : ProcessReturn(v)
    \/ ProcessRaise
    \/ ExitWith
    \/ ZipResume

SpecZip == Init /\ [][NextZip]_vars

\* ------------------------------------------- VectorStoreRetriever.__init__
\* The index built from version v of the exported documents.
IndexOf(v) == [documents |-> v]

StoreTypes == {"faiss", "chroma"}

\* The course exports are replaced by a newer version between constructions.
NewExports ==
    /\ vpc = "idle"
    /\ exports < MaxExports
    /\ exports' = exports + 1
    /\ UNCHANGED <<graphVars, self_max_depth, callVars, buildVars, zipVars, canvasVars, agentVars,
                   vpc, params, persist_dir, vector_store, did, constructions>>

\* VectorStoreRetriever(canvas_path, piazza_path, vector_store_type=t,
\* persist_directory=...): the two is_file checks, then the loaders and the
\* splitter.  persistent is whether persist_directory was given.
Construct(t, persistent, canvas_is_file, piazza_is_file) ==
    /\ vpc = "idle"
    /\ Len(constructions) < MaxConstructions
    /\ params' = [vector_store_type |-> t, persist_directory |-> persistent,
                  documents |-> exports]
    /\ did' = <<>>
    /\ vpc' = IF canvas_is_file /\ piazza_is_file THEN "loaded" ELSE "raised"
    /\ UNCHANGED <<graphVars, self_max_depth, callVars, buildVars, zipVars, canvasVars, agentVars,
                   exports, persist_dir, vector_store, constructions>>

\* from_documents whatever the directory holds
CreateStore_Rebuilds ==
    /\ vpc = "loaded"
    /\ vector_store' = <<IndexOf(params.documents)>>
    /\ did' = Append(did, "build")
    /\ vpc' = "built"
    /\ persist_dir' = IF params.vector_store_type = "chroma" /\ params.persist_directory
                      THEN <<IndexOf(params.documents)>>
                      ELSE persist_dir
    /\ UNCHANGED <<graphVars, self_max_depth, callVars, buildVars, zipVars, canvasVars, agentVars,
                   params, exports, constructions>>

\* if persist_directory and os.path.exists(persist_directory): FAISS.load_local
\* or Chroma(persist_directory=...); else from_documents, which for Chroma
\* with a persist_directory creates the directory
CreateStore ==
    /\ vpc = "loaded"
    /\ IF params.persist_directory /\ persist_dir # <<>>
       THEN /\ vector_store' = persist_dir
            /\ did' = Append(did, "load")
            /\ vpc' = "done"
            /\ UNCHANGED persist_dir
       ELSE /\ vector_store' = <<IndexOf(params.documents)>>
            /\ did' = Append(did, "build")
            /\ vpc' = "built"
            /\ persist_dir' =
                  IF params.vector_store_type = "chroma" /\ params.persist_directory
                  THEN <<IndexOf(params.documents)>>
                  ELSE persist_dir
    /\ UNCHANGED <<graphVars, self_max_depth, callVars, buildVars, zipVars, canvasVars, agentVars,
                   params, exports, constructions>>

\* if persist_directory: store.save_local(persist_directory) / store.persist()
SaveStore ==
    /\ vpc = "built"
    /\ IF params.persist_directory
       THEN /\ persist_dir' = vector_store
            /\ did' = Append(did, "save")
       ELSE UNCHANGED <<persist_dir, did>>
    /\ vpc' = "done"
    /\ UNCHANGED <<graphVars, self_max_depth, callVars, buildVars, zipVars, canvasVars, agentVars,
                   params, exports, vector_store, constructions>>

\* object.__setattr__(self, "vector_store", store): the constructor returns
Constructed ==
    /\ vpc = "done"
    /\ constructions' = Append(constructions,
                               [persist_directory |-> params.persist_directory,
                                did |-> did, store |-> vector_store])
    /\ vpc' = "idle"
    /\ params' = <<>>
    /\ did' = <<>>
    /\ UNCHANGED <<graphVars, self_max_depth, callVars, buildVars, zipVars, canvasVars, agentVars,
                   exports, persist_dir, vector_store>>

\* raise FileNotFoundError(msg): no retriever is constructed
ConstructRaised ==
    /\ vpc = "raised"
    /\ vpc' = "idle"
    /\ params' = <<>>
    /\ UNCHANGED <<graphVars, self_max_depth, callVars, buildVars, zipVars, canvasVars, agentVars,
                   exports, persist_dir, vector_store, did, constructions>>

NextStore ==
    \/ NewExports
    \/ \E t \in StoreTypes, persistent, c, z \in BOOLEAN : Construct(t, persistent, c, z)
    \/ CreateStore
    \/ SaveStore
    \/ Constructed
    \/ ConstructRaised

SpecStore == Init /\ [][NextStore]_vars

\* ------------------------------------------------- CanvasAPILoader
\* A header value is a string, written as the sequence of its characters;
\* "sup2" stands for the character SUPERSCRIPT TWO (U+00B2), which a latin-1
\* header can hold.
DecimalChars == {"0", "1", "2", "3", "5"}

DigitValue(c) ==
    CASE c = "0" -> 0 [] c = "1" -> 1 [] c = "2" -> 2 [] c = "3" -> 3 [] c = "5" -> 5

\* str.isdigit(): the string is not empty and every character is a digit;
\* the superscript digits count as digits
isdigit(s) == s # <<>> /\ \A i \in 1..Len(s) : s[i] \in DecimalChars \cup {"sup2"}

RECURSIVE DecimalValue(_)
DecimalValue(s) ==
    IF s = <<>> THEN 0
    ELSE 10 * DecimalValue(SubSeq(s, 1, Len(s) - 1)) + DigitValue(s[Len(s)])

\* int(s): <<n>> for the value n of a decimal string, <<>> for ValueError
int(s) ==
    IF s # <<>> /\ \A i \in 1..Len(s) : s[i] \in DecimalChars
    THEN <<DecimalValue(s)>>
    ELSE <<>>

\* response.headers.get(name): <<>> for None, <<s>> for the string s
RetryAfterValues ==
    {<<>>, << <<>> >>, << <<"0">> >>, << <<"2">> >>, << <<"1", "0">> >>,
     << <<"x">> >>, << <<"sup2">> >>}
RemainingValues == {<<>>, << <<"0">> >>, << <<"5">> >>}
ResetValues == {<<>>, << <<"3">> >>, << <<"x">> >>}

Headers ==
    [retry_after : RetryAfterValues, remaining : RemainingValues, reset : ResetValues]

\* What requests.get returns: data is the number of items of the JSON list
\* and next whether the Link header names a next page; both only with 200.
Responses ==
    [status : {200}, headers : Headers, data : 0..MaxItems, next : BOOLEAN]
    \cup [status : {429, 500}, headers : Headers, data : {0}, next : {FALSE}]

\* `if h`: the header is present and not the empty string
Truthy(h) == h # <<>> /\ h[1] # <<>>

\* _respect_rate_limits(response): whether it raises, and the arguments of
\* its time.sleep calls
respect_rate_limits(r) ==
    LET remaining == r.headers.remaining
        reset == r.headers.reset
        retry == r.headers.retry_after
        delay == IF Truthy(retry) /\ isdigit(retry[1]) THEN int(retry[1])
                 ELSE IF remaining = << <<"0">> >> /\ Truthy(reset) /\ isdigit(reset[1])
                      THEN int(reset[1])
                      ELSE <<0>>
    IN [raised |-> delay = <<>>,
        sleeps |-> IF delay # <<>> /\ delay[1] > 0 THEN delay ELSE <<>>]

ResourceTypes == <<"assignment", "quiz", "announcement">>

\* The items of page p of endpoint e that holds n items.
PageData(e, p, n) == [i \in 1..n |-> <<e, p, i>>]

\* _assignment_to_doc / _quiz_to_doc / _announcement_to_doc
converter(e, item) == [resource_type |-> ResourceTypes[e], item |-> item]

\* for item in data: documents.append(converter(item))
ExtendPage(ds, e, data) == ds \o [i \in 1..Len(data) |-> converter(e, data[i])]

\* the next link is not followed
NextUrl_None(r, u) == 0

\* response.links.get("next", {}).get("url"): the next page, 0 for None
NextUrl(r, u) == IF r.next THEN u + 1 ELSE 0

canvasFrame == <<graphVars, self_max_depth, callVars, buildVars, zipVars, storeVars, agentVars>>

\* load(): the first _load_endpoint call, up to its first _get
Load ==
    /\ cpc = "idle"
    /\ cpc' = "get"
    /\ endpoint' = 1 /\ url' = 1 /\ cparams' = FALSE
    /\ edocs' = <<>> /\ cdocs' = <<>> /\ served' = <<>>
    /\ response' = <<>> /\ applied' = 0 /\ slept' = <<>> /\ attempts' = 0
    /\ cerror' = "none"
    /\ UNCHANGED canvasFrame

\* response = requests.get(url, headers=headers, params=params, timeout=30);
\* the server links at most MaxPages pages
RequestsGet(r) ==
    /\ cpc = "get"
    /\ r.next => url < MaxPages
    /\ response' = <<r>>
    /\ applied' = 0 /\ slept' = <<>>
    /\ attempts' = IF attempts < MaxAttempts THEN attempts + 1 ELSE attempts
    /\ cpc' = "response"
    /\ UNCHANGED <<canvasFrame, endpoint, url, cparams, edocs, cdocs, served, cerror>>

\* if response.status_code == 429: self._respect_rate_limits(response); continue
TooManyRequests ==
    /\ cpc = "response"
    /\ response[1].status = 429
    /\ LET rl == respect_rate_limits(response[1]) IN
        /\ applied' = applied + 1
        /\ slept' = slept \o rl.sleeps
        /\ cpc' = IF rl.raised THEN "raised" ELSE "get"
        /\ cerror' = IF rl.raised THEN "ValueError" ELSE cerror
    /\ UNCHANGED <<canvasFrame, endpoint, url, cparams, edocs, cdocs, response,
                   attempts, served>>

\* self._respect_rate_limits(response); response.raise_for_status(); return response
GetReturns ==
    /\ cpc = "response"
    /\ response[1].status # 429
    /\ LET rl == respect_rate_limits(response[1]) IN
        /\ applied' = applied + 1
        /\ slept' = slept \o rl.sleeps
        /\ cpc' = IF rl.raised \/ response[1].status >= 400 THEN "raised" ELSE "page"
        /\ cerror' = IF rl.raised THEN "ValueError"
                     ELSE IF response[1].status >= 400 THEN "HTTPError"
                     ELSE cerror
    /\ UNCHANGED <<canvasFrame, endpoint, url, cparams, edocs, cdocs, response,
                   attempts, served>>

\* data = response.json(); the for loop; url = next link; params = None; and
\* the test of `while url`
ReadPage ==
    /\ cpc = "page"
    /\ LET r == response[1] IN
        /\ edocs' = ExtendPage(edocs, endpoint, PageData(endpoint, url, r.data))
        /\ served' = Append(served, [endpoint |-> endpoint, page |-> url,
                                     data |-> r.data, next |-> r.next,
                                     params |-> cparams])
        /\ url' = NextUrl(r, url)
    /\ cparams' = FALSE
    /\ attempts' = 0
    /\ cpc' = IF url' # 0 THEN "get" ELSE "extend"
    /\ UNCHANGED <<canvasFrame, endpoint, cdocs, response, applied, slept, cerror>>

\* return documents from _load_endpoint; documents.extend(...) in load; then
\* the next _load_endpoint call, or return documents
Extend ==
    /\ cpc = "extend"
    /\ cdocs' = cdocs \o edocs
    /\ edocs' = <<>>
    /\ IF endpoint < 3
       THEN /\ endpoint' = endpoint + 1
            /\ url' = 1
            /\ cparams' = (endpoint + 1 = 3)
            /\ cpc' = "get"
       ELSE /\ cpc' = "returned"
            /\ UNCHANGED <<endpoint, url, cparams>>
    /\ UNCHANGED <<canvasFrame, response, applied, slept, attempts, served, cerror>>

\* The caller is between two load calls.
LoadEnded ==
    /\ cpc \in {"returned", "raised"}
    /\ cpc' = "idle" /\ endpoint' = 0 /\ url' = 0 /\ cparams' = FALSE
    /\ edocs' = <<>> /\ cdocs' = <<>> /\ response' = <<>> /\ applied' = 0
    /\ slept' = <<>> /\ attempts' = 0 /\ served' = <<>> /\ cerror' = "none"
    /\ UNCHANGED canvasFrame

\* Responses without rate-limit headers, with Retry-After: 2, and with
\* X-Rate-Limit-Remaining: 0 and X-Rate-Limit-Reset: 3.
PlainHeaders ==
    {[retry_after |-> <<>>, remaining |-> <<>>, reset |-> <<>>],
     [retry_after |-> << <<"2">> >>, remaining |-> <<>>, reset |-> <<>>],
     [retry_after |-> <<>>, remaining |-> << <<"0">> >>, reset |-> << <<"3">> >>]}

LoadResponses == {r \in Responses : r.headers \in PlainHeaders}

NextCanvas ==
    \/ Load
    \/ \E r \in LoadResponses : RequestsGet(r)
    \/ TooManyRequests
    \/ GetReturns
    \/ ReadPage
    \/ Extend
    \/ LoadEnded

SpecCanvas == Init /\ [][NextCanvas]_vars

\* One call of _get, for the first page of the first endpoint, and every
\* response the server may give it.
GetEnded ==
    /\ cpc \in {"page", "raised"}
    /\ cpc' = "idle" /\ endpoint' = 0 /\ url' = 0 /\ cparams' = FALSE
    /\ edocs' = <<>> /\ cdocs' = <<>> /\ response' = <<>> /\ applied' = 0
    /\ slept' = <<>> /\ attempts' = 0 /\ served' = <<>> /\ cerror' = "none"
    /\ UNCHANGED canvasFrame

NextGet ==
    \/ Load
    \/ \E r \in Responses : RequestsGet(r)
    \/ TooManyRequests
    \/ GetReturns
    \/ GetEnded

SpecGet == Init /\ [][NextGet]_vars

\* ------------------------------------------------- the self-querying agent
\* A query is a string, written as the sequence of its characters; "nl" is
\* the newline.  Queries are made of the words "and", "Then" and "x", the
\* space, the question mark and the newline.
Pieces ==
    {<<"a", "n", "d">>, <<"T", "h", "e", "n">>, <<"x">>, <<" ">>, <<"?">>, <<"nl">>}

RECURSIVE Concat(_)
Concat(ss) == IF ss = <<>> THEN <<>> ELSE Head(ss) \o Concat(Tail(ss))

AgentQueries == {Concat(ps) : ps \in SeqsUpTo(Pieces, MaxPieces)}

\* \w: every character of the alphabet but the space, "?" and the newline
IsWordChar(c) == c \notin {" ", "?", "nl"}

\* matching without re.IGNORECASE
Lower_CaseSensitive(c) == c

\* re.IGNORECASE: characters are compared by their lower case
Lower(c) == IF c = "T" THEN "t" ELSE c

\* \b at the gap in front of position i
Boundary(q, i) ==
    (i > 1 /\ IsWordChar(q[i - 1])) # (i <= Len(q) /\ IsWordChar(q[i]))

\* \bw\b matches at position i
WordAt(q, i, w) ==
    /\ i + Len(w) - 1 <= Len(q)
    /\ \A k \in 1..Len(w) : Lower(q[i + k - 1]) = w[k]
    /\ Boundary(q, i)
    /\ Boundary(q, i + Len(w))

\* The length of the match of \b(?:and|then)\b|[?\n] at position i, 0 for none.
MatchLen(q, i) ==
    IF WordAt(q, i, <<"a", "n", "d">>) THEN 3
    ELSE IF WordAt(q, i, <<"t", "h", "e", "n">>) THEN 4
    ELSE IF q[i] \in {"?", "nl"} THEN 1
    ELSE 0

\* re.split(pattern, query): cur is the part being read at position i
RECURSIVE ReSplit(_, _, _)
ReSplit(q, i, cur) ==
    IF i > Len(q) THEN <<cur>>
    ELSE IF MatchLen(q, i) > 0
         THEN <<cur>> \o ReSplit(q, i + MatchLen(q, i), <<>>)
         ELSE ReSplit(q, i + 1, Append(cur, q[i]))

\* str.strip()
RECURSIVE strip(_)
strip(s) ==
    IF s = <<>> THEN s
    ELSE IF Head(s) \in {" ", "nl"} THEN strip(Tail(s))
    ELSE IF s[Len(s)] \in {" ", "nl"} THEN strip(SubSeq(s, 1, Len(s) - 1))
    ELSE s

\* _split_query(query): [p.strip() for p in parts if p.strip()]
split_query(q) ==
    LET parts == ReSplit(q, 1, <<>>)
        stripped == [i \in 1..Len(parts) |-> strip(parts[i])]
    IN SelectSeq(stripped, LAMBDA p : p # <<>>)

\* sep.join(ss)
RECURSIVE Join(_, _)
Join(ss, sep) ==
    IF ss = <<>> THEN <<>>
    ELSE IF Len(ss) = 1 THEN ss[1]
    ELSE ss[1] \o sep \o Join(Tail(ss), sep)

\* What retriever.retrieve may return: the first n documents of the store's
\* ranking, each document given by its page_content, a one-character string.
Hits == {[i \in 1..n |-> IF i % 2 = 1 THEN "A" ELSE "B"] : n \in 0..MaxHits}

\* f"Sub-query: {sub_query}\n{docs_text}"; the literal "Sub-query: " is
\* written as one token
Section(sub_query, hits) ==
    <<"Sub-query: ">> \o sub_query \o <<"nl">>
        \o Join([i \in 1..Len(hits) |-> <<hits[i]>>], <<"nl">>)

\* a lookup that ignores the cached retriever
get_retriever_NoCache(c, e, can_construct, n) ==
    IF ~Truthy(e.CANVAS_PATH) \/ ~Truthy(e.PIAZZA_PATH)
    THEN [error |-> "RuntimeError", cache |-> c, instances |-> n, env_read |-> TRUE]
    ELSE IF can_construct
         THEN [error |-> "none", cache |-> n + 1, instances |-> n + 1, env_read |-> TRUE]
         ELSE [error |-> "FileNotFoundError", cache |-> c, instances |-> n,
               env_read |-> TRUE]

\* _get_retriever() with _RETRIEVER = c and os.environ = e, after n
\* instances were constructed; can_construct is whether the constructor
\* finds both exports (it raises FileNotFoundError otherwise).  The value
\* returned is the cache afterwards.
get_retriever(c, e, can_construct, n) ==
    IF c # 0
    THEN [error |-> "none", cache |-> c, instances |-> n, env_read |-> FALSE]
    ELSE IF ~Truthy(e.CANVAS_PATH) \/ ~Truthy(e.PIAZZA_PATH)
         THEN [error |-> "RuntimeError", cache |-> 0, instances |-> n, env_read |-> TRUE]
         ELSE IF can_construct
              THEN [error |-> "none", cache |-> n + 1, instances |-> n + 1,
                    env_read |-> TRUE]
              ELSE [error |-> "FileNotFoundError", cache |-> 0, instances |-> n,
                    env_read |-> TRUE]

agentFrame == <<graphVars, self_max_depth, callVars, buildVars, zipVars, storeVars, canvasVars>>

\* os.environ is changed between calls; a variable is unset, empty or a path.
EnvValues == {<<>>, << <<>> >>, << <<"p">> >>}

SetEnv(c, p) ==
    /\ apc = "idle"
    /\ env' = [CANVAS_PATH |-> c, PIAZZA_PATH |-> p]
    /\ env' # env
    /\ UNCHANGED <<agentFrame, apc, aop, cache, instances, env_read, aquery, calls,
                   text, aerror>>

\* A call of _get_retriever().
GetRetriever(can_construct) ==
    /\ apc = "idle"
    /\ instances < MaxInstances
    /\ LET r == get_retriever(cache, env, can_construct, instances) IN
        /\ cache' = r.cache
        /\ instances' = r.instances
        /\ env_read' = r.env_read
        /\ aerror' = r.error
        /\ apc' = IF r.error = "none" THEN "returned" ELSE "raised"
    /\ aop' = "_get_retriever"
    /\ aquery' = <<>> /\ calls' = <<>> /\ text' = <<>>
    /\ UNCHANGED <<agentFrame, env>>

\* A call of run_agent(q); hits[i] is what the retriever returns for the
\* i-th sub-query.
RunAgent(q, can_construct, hits) ==
    /\ apc = "idle"
    /\ instances < MaxInstances
    /\ aop' = "run_agent"
    /\ aquery' = q
    /\ LET r == get_retriever(cache, env, can_construct, instances)
           subs == split_query(q)
       IN /\ cache' = r.cache
          /\ instances' = r.instances
          /\ env_read' = r.env_read
          /\ aerror' = r.error
          /\ IF r.error # "none"
             THEN /\ apc' = "raised"
                  /\ calls' = <<>> /\ text' = <<>>
                  /\ hits = <<>>
             ELSE /\ apc' = "returned"
                  /\ DOMAIN hits = 1..Len(subs)
                  /\ calls' = [i \in 1..Len(subs) |->
                                  [retriever |-> r.cache, query |-> subs[i], k |-> 5,
                                   hits |-> hits[i]]]
                  /\ text' = Join([i \in 1..Len(subs) |-> Section(subs[i], hits[i])],
                                  <<"nl", "nl">>)
    /\ UNCHANGED <<agentFrame, env>>

\* The caller is between calls; the module keeps _RETRIEVER.
AgentResume ==
    /\ apc \in {"returned", "raised"}
    /\ apc' = "idle" /\ aop' = "none" /\ env_read' = FALSE
    /\ aquery' = <<>> /\ calls' = <<>> /\ text' = <<>> /\ aerror' = "none"
    /\ UNCHANGED <<agentFrame, env, cache, instances>>

\* run_agent on every query, with CANVAS_PATH and PIAZZA_PATH set.
InitAgent ==
    /\ graph = EmptyGraph
    /\ edgeLog = <<>>
    /\ self_max_depth = 1
    /\ NoCall /\ NoBuild /\ NoZip /\ NoStore /\ NoCanvas
    /\ apc = "idle" /\ aop = "none" /\ cache = 0 /\ instances = 0
    /\ env = [CANVAS_PATH |-> << <<"p">> >>, PIAZZA_PATH |-> << <<"p">> >>]
    /\ env_read = FALSE /\ aquery = <<>> /\ calls = <<>> /\ text = <<>>
    /\ aerror = "none"

NextAgent ==
    \/ /\ apc = "idle"
       /\ \E q \in AgentQueries, can_construct \in BOOLEAN :
             \E hits \in SeqsUpTo(Hits, Len(split_query(q))) :
                 RunAgent(q, can_construct, hits)
    \/ AgentResume

SpecAgent == InitAgent /\ [][NextAgent]_vars

\* Any sequence of _get_retriever and run_agent calls and environment changes.
CacheQueries == {<<>>, <<"x">>, <<"x", "?", "x">>}

NextCache ==
    \/ \E c, p \in EnvValues : SetEnv(c, p)
    \/ \E can_construct \in BOOLEAN : GetRetriever(can_construct)
    \/ /\ apc = "idle"
       /\ \E q \in CacheQueries, can_construct \in BOOLEAN :
             \E hits \in SeqsUpTo(Hits, Len(split_query(q))) :
                 RunAgent(q, can_construct, hits)
    \/ AgentResume

SpecCache == Init /\ [][NextCache]_vars

\* --------------------------------------------------- the graph builder
\* Source strings: x/1.html, ./x/2.html, y/1.html and 1.html.
Sources ==
    {<<"x", "/", "1.html">>, <<".", "/", "x", "/", "2.html">>,
     <<"y", "/", "1.html">>, <<"1.html">>}
\* Timestamp strings "1", "2" and "10" (code points of the digits).
Timestamps == {<<49>>, <<50>>, <<49, 48>>}

Optional(S) == {<<>>} \cup {<<x>> : x \in S}

LoadedDocuments ==
    {Document("A", src, ts) : src \in Optional(Sources), ts \in Optional(Timestamps)}

\* The loader has returned the documents; the builder has not been called.
InitBuilder ==
    /\ documents \in SeqsUpTo(LoadedDocuments, MaxDocs)
    /\ prefix = ""
    /\ built = FALSE
    /\ second = <<>>
    /\ graph = EmptyGraph
    /\ edgeLog = <<>>
    /\ self_max_depth = 1
    /\ NoCall
    /\ NoOther

\* graph_from_canvas / graph_from_piazza: _graph_from_documents(documents, prefix=p)
Build(p) ==
    /\ ~built
    /\ LET r == graph_from_documents(documents, p) IN
        /\ graph' = r.graph
        /\ edgeLog' = r.log
    /\ prefix' = p
    /\ built' = TRUE
    /\ UNCHANGED <<documents, second, self_max_depth, otherVars, callVars>>

NextBuilder == \E p \in {"canvas", "piazza"} : Build(p)

SpecBuilder == InitBuilder /\ [][NextBuilder]_vars

\* A second call _graph_from_documents(documents, prefix=prefix) on the same
\* arguments; it returns a new CourseGraph and leaves the first one alone.
Rebuild ==
    /\ built
    /\ second = <<>>
    /\ second' = <<graph_from_documents(documents, prefix).graph>>
    /\ UNCHANGED <<graphVars, documents, prefix, built, self_max_depth, otherVars, callVars>>

NextTwoBuilds ==
    \/ \E p \in {"canvas", "piazza"} : Build(p)
    \/ Rebuild

SpecTwoBuilds == InitBuilder /\ [][NextTwoBuilds]_vars

\* ------------------------------------------- build, then retrieve
\* Source strings x/1.html, x/2.html and y/1.html.
ScenarioSources ==
    {<<"x", "/", "1.html">>, <<"x", "/", "2.html">>, <<"y", "/", "1.html">>}

\* Documents that carry both a source and a timestamp.
FullDocuments ==
    {Document("A", <<src>>, <<ts>>) : src \in ScenarioSources, ts \in Timestamps}

InitEndToEnd ==
    /\ documents \in SeqsUpTo(FullDocuments, MaxDocs)
    /\ prefix = ""
    /\ built = FALSE
    /\ second = <<>>
    /\ graph = EmptyGraph
    /\ edgeLog = <<>>
    /\ self_max_depth = 1
    /\ NoCall
    /\ NoOther

\* GraphRetriever(graph).retrieve(id) and .retrieve(id, max_depth=5) on the
\* graph the builder returned
NextEndToEnd ==
    \/ \E p \in {"canvas", "piazza"} : Build(p)
    \/ /\ built
       /\ \E id \in 1..MaxDocs, m \in {None, <<5>>} : Retrieve(id, m)
    \/ Resume

SpecEndToEnd == InitEndToEnd /\ [][NextEndToEnd]_vars

\* ============================================================== properties
\* Reference notions the properties are stated with.
Succ(g, u) == Range(g.adj[u])

\* The nodes at most k edges away from s.
RECURSIVE Within(_, _, _)
Within(g, s, k) ==
    IF k <= 0 THEN {s}
    ELSE LET W == Within(g, s, k - 1) IN W \cup UNION {Succ(g, u) : u \in W}

\* Shortest directed-path distance from s to a node reachable from s.
Dist(g, s, n) == CHOOSE k \in 0..NumIds : n \in Within(g, s, k) /\ n \notin Within(g, s, k - 1) \ {s}

NoDuplicates(q) == \A i, j \in 1..Len(q) : q[i] = q[j] => i = j

\* The documents of a sequence of nodes.
DocsOf(g, q) == [i \in 1..Len(q) |-> DocumentOf(g, q[i])]

RetrieveEnded == op = "retrieve" /\ pc \in {"returned", "raised"}
RetrieveReturned == op = "retrieve" /\ pc = "returned"
NeighborsEnded == op = "neighbors" /\ pc \in {"returned", "raised"}

\* C1: retrieve(s, max_depth=m), for a seed s of the graph and m >= 1, returns
\* the documents of exactly the nodes other than s whose distance from s is
\* between 1 and m, one entry per node.
C1_DepthBound ==
    (RetrieveEnded /\ HasNode(graph, arg) /\ depth >= 1) =>
        /\ pc = "returned"
        /\ NoDuplicates(order)
        /\ Range(order) = Within(graph, arg, depth) \ {arg}
        /\ result = DocsOf(graph, order)

\* C2: the list retrieve returns holds each node's document at most once and
\* has no entry for the seed.
C2_NoDuplicateNoSeed ==
    RetrieveReturned =>
        /\ result = DocsOf(graph, order)
        /\ NoDuplicates(order)
        /\ arg \notin Range(order)

\* A returned traversal of a graph with a cycle through the seed and a node
\* that two expanded nodes point to.
C2_Witness ==
    /\ RetrieveReturned
    /\ \E n \in Range(order) : arg \in Succ(graph, n) /\ Dist(graph, arg, n) < depth
    /\ \E n \in Range(order) :
          \E u, v \in Within(graph, arg, depth - 1) :
              u # v /\ n \in Succ(graph, u) /\ n \in Succ(graph, v)

\* C3: every retrieve call terminates (it returns or raises), and an iteration
\* enqueues only nodes that were never enqueued before.
C3_EnqueuedOnce ==
    [][(pc = "loop" /\ pc' # "idle") =>
          /\ visited \subseteq visited'
          /\ \A i \in 1..Len(queue') :
                (i > Len(queue) - 1) =>
                    /\ queue'[i][1] \notin visited
                    /\ queue'[i][1] \in visited'
          /\ NoDuplicates([i \in 1..Len(queue') |-> queue'[i][1]])]_vars

C3_Terminates ==
    /\ (pc = "loop") ~> (pc \in {"returned", "raised"})
    /\ C3_EnqueuedOnce

\* A traversal in progress on a graph with a cycle.
C3_Witness ==
    /\ pc = "loop" /\ Len(order) >= 1
    /\ \E n \in Range(order) : arg \in Succ(graph, n)

\* C4: in the list returned, a document whose node is nearer to the seed comes
\* first, and the entries are the documents of the nodes in discovery order.
C4_BreadthFirst ==
    RetrieveReturned =>
        /\ result = DocsOf(graph, order)
        /\ \A i, j \in 1..Len(order) :
              Dist(graph, arg, order[i]) < Dist(graph, arg, order[j]) => i < j

\* A returned list with nodes of two distances whose documents are not in
\* the order of the documents' text.
C4_Witness ==
    /\ RetrieveReturned
    /\ \E i, j \in 1..Len(order) :
          /\ Dist(graph, arg, order[i]) = 1 /\ Dist(graph, arg, order[j]) = 2
          /\ result[i].page_content = "B" /\ result[j].page_content = "A"

\* Position of an element in a sequence without duplicates (0 when missing).
Pos(q, x) == IF x \in Range(q) THEN CHOOSE i \in 1..Len(q) : q[i] = x ELSE 0

\* The node whose expansion discovered n: the first node of the traversal
\* with an edge to n.
Traversal == <<arg>> \o order
Parent(n) ==
    Traversal[CHOOSE i \in 1..Len(Traversal) :
                 /\ n \in Succ(graph, Traversal[i])
                 /\ \A k \in 1..(i - 1) : n \notin Succ(graph, Traversal[k])]

SameDepth(x, y) == Dist(graph, arg, x) = Dist(graph, arg, y)

\* C5 as stated: of two returned nodes at the same depth, the one whose
\* discovering edge was inserted earlier comes first, whatever their parents.
C5_EdgeInsertionOrder ==
    RetrieveReturned =>
        \A i, j \in 1..Len(order) :
            (i < j /\ SameDepth(order[i], order[j])) =>
                Pos(edgeLog, <<Parent(order[i]), order[i]>>)
                    < Pos(edgeLog, <<Parent(order[j]), order[j]>>)

\* C5 amended: of two returned nodes at the same depth, the one whose parent
\* comes earlier in the traversal comes first; with the same parent, the one
\* whose discovering edge was inserted earlier.
C5_ParentThenInsertionOrder ==
    RetrieveReturned =>
        \A i, j \in 1..Len(order) :
            (i < j /\ SameDepth(order[i], order[j])) =>
                LET pi == Parent(order[i])
                    pj == Parent(order[j])
                IN \/ Pos(Traversal, pi) < Pos(Traversal, pj)
                   \/ /\ pi = pj
                      /\ Pos(edgeLog, <<pi, order[i]>>) < Pos(edgeLog, <<pj, order[j]>>)

\* Two same-depth nodes with different parents, the later one reached by the
\* edge inserted first.
C5_Witness ==
    /\ RetrieveReturned
    /\ \E i, j \in 1..Len(order) :
          /\ i < j /\ SameDepth(order[i], order[j])
          /\ Parent(order[i]) # Parent(order[j])
          /\ Pos(edgeLog, <<Parent(order[j]), order[j]>>)
                < Pos(edgeLog, <<Parent(order[i]), order[i]>>)

\* C6: neighbors(n), for a node n of the graph, returns the documents of
\* exactly the nodes with an edge from n, one entry each.
C6_NeighborsExact ==
    (NeighborsEnded /\ HasNode(graph, arg)) =>
        /\ pc = "returned"
        /\ \E q \in [1..Len(result) -> Ids] :
              /\ NoDuplicates(q)
              /\ Range(q) = {t \in Ids : <<arg, t>> \in Range(edgeLog)}
              /\ result = DocsOf(graph, q)

\* C7: neighbors(x) and retrieve(x), for an identifier x no artifact was added
\* under, raise the not-found KeyError naming x.
C7_AbsentRaisesNotFound ==
    ((NeighborsEnded \/ RetrieveEnded) /\ graph.document[arg] = <<>>) =>
        pc = "raised" /\ error = NotFound(arg)

\* C8: retrieve never raises for a seed of the graph, and returns the empty
\* list for a seed without outgoing edges.
C8_PresentSeedNeverRaises ==
    (RetrieveEnded /\ HasNode(graph, arg)) =>
        /\ pc = "returned"
        /\ (graph.adj[arg] = <<>> => result = <<>>)

\* C9: both endpoints of every edge are nodes that hold a document.
C9_EdgeEndpointsHoldDocuments ==
    \A e \in EdgeSet(graph) :
        /\ HasNode(graph, e[1]) /\ ~LacksDocument(graph, e[1])
        /\ HasNode(graph, e[2]) /\ ~LacksDocument(graph, e[2])

\* The members of the group of the document at position i (positions 1..K).
Group(i) ==
    {j \in 1..Len(documents) : SourceParent(documents[j]) = SourceParent(documents[i])}

Key(i) == TimestampKey(documents[i])

DistinctKeys(G) == \A i, j \in G : i # j => Key(i) # Key(j)

\* j holds the next greater timestamp after i within G.
NextInGroup(G, i, j) ==
    /\ StrLess(Key(i), Key(j))
    /\ ~\E k \in G : StrLess(Key(i), Key(k)) /\ StrLess(Key(k), Key(j))

\* C10: a group of N documents with the same source parent and pairwise
\* different timestamps gets exactly N-1 edges among its members, each
\* from a document to the one with the next greater timestamp.
C10_GroupChain ==
    built =>
        \A i \in 1..Len(documents) :
            LET G == Group(i)
                E == {e \in EdgeSet(graph) : e[1] \in G /\ e[2] \in G}
            IN DistinctKeys(G) =>
                /\ E = {e \in G \X G : NextInGroup(G, e[1], e[2])}
                /\ Cardinality(E) = Cardinality(G) - 1

\* A built group of three documents whose input order is not their
\* timestamp order and whose timestamps "10" and "2" compare as strings.
C10_Witness ==
    /\ built
    /\ Len(documents) = 3
    /\ Group(1) = {1, 2, 3}
    /\ \A i \in 1..3 : documents[i].metadata.source # <<>>
    /\ documents[1].metadata.source # documents[2].metadata.source
    /\ Key(1) = <<50>> /\ Key(2) = <<49, 48>> /\ Key(3) = <<49>>
    /\ EdgeSet(graph) = {<<3, 2>>, <<2, 1>>}

\* C11: in a built graph, the documents at the two ends of every edge have
\* the same parent directory of their source (the default "." when missing).
C11_NoCrossGroupEdges ==
    built =>
        \A e \in EdgeSet(graph) :
            SourceParent(DocumentOf(graph, e[1])) = SourceParent(DocumentOf(graph, e[2]))

\* A build with two directories where the document of the other directory
\* has a timestamp between those of the two linked documents.
C11_Witness ==
    /\ built
    /\ Len(documents) = 3
    /\ \A i \in 1..3 : documents[i].metadata.source # <<>>
    /\ Group(1) = {1, 3}
    /\ Key(1) = <<49>> /\ Key(2) = <<49, 48>> /\ Key(3) = <<50>>
    /\ EdgeSet(graph) = {<<1, 3>>}

Scenario ==
    /\ Len(documents) = 3
    /\ documents[1].metadata.source = << <<"x", "/", "1.html">> >>
    /\ documents[2].metadata.source = << <<"x", "/", "2.html">> >>
    /\ documents[3].metadata.source = << <<"y", "/", "1.html">> >>
    /\ StrLess(Key(1), Key(2)) /\ StrLess(Key(2), Key(3))

\* C13: the build of the scenario has two groups and the single edge
\* doc1 -> doc2, and retrieve(id(doc1), max_depth=5) returns [doc2].
C13_EndToEnd ==
    (built /\ Scenario) =>
        /\ Cardinality({SourceParent(documents[i]) : i \in 1..3}) = 2
        /\ EdgeSet(graph) = {<<node_id(prefix, 0), node_id(prefix, 1)>>}
        /\ (RetrieveEnded /\ arg = node_id(prefix, 0) /\ depth = 5) =>
              pc = "returned" /\ result = <<documents[2]>>

\* The scenario built and retrieve(id(doc1), max_depth=5) returned.
C13_Witness ==
    /\ built /\ Scenario
    /\ RetrieveReturned /\ arg = node_id(prefix, 0) /\ depth = 5
    /\ result = <<documents[2]>>

\* The document at position j is further down the chain than the one at i.
Precedes(i, j) ==
    /\ i # j
    /\ node_id(prefix, j - 1) \in Within(graph, node_id(prefix, i - 1), Len(documents))
    /\ node_id(prefix, i - 1) \notin Within(graph, node_id(prefix, j - 1), Len(documents))

LacksSource(i) == documents[i].metadata.source = <<>>
LacksTimestamp(i) == documents[i].metadata.timestamp = <<>>

\* C14: the builder returns a graph for every document sequence; the
\* documents without a source are all in one group, the one of the
\* current directory, and within a group a document without a timestamp
\* precedes in the chain every document with a non-empty timestamp.
C14_MissingMetadataDefaults ==
    /\ ~built =>
          \A p \in {"canvas", "piazza"} :
              graph_from_documents(documents, p).graph.nodes
                  = {node_id(p, i - 1) : i \in 1..Len(documents)}
    /\ built =>
          \A i, j \in 1..Len(documents) :
              /\ (LacksSource(i) /\ LacksSource(j) /\ i # j) =>
                    /\ SourceParent(documents[i]) = Path(<<".">>)
                    /\ Precedes(i, j) \/ Precedes(j, i)
              /\ (j \in Group(i) /\ LacksTimestamp(i) /\ ~LacksTimestamp(j)
                    /\ documents[j].metadata.timestamp # << <<>> >>) =>
                    Precedes(i, j)

\* Three documents of the current-directory group: the first, without a
\* source, has a timestamp; the second has neither key; the third has the
\* source 1.html and no timestamp.
C14_Witness ==
    /\ built
    /\ Len(documents) = 3
    /\ LacksSource(1) /\ ~LacksTimestamp(1)
    /\ LacksSource(2) /\ LacksTimestamp(2)
    /\ documents[3].metadata.source = << <<"1.html">> >> /\ LacksTimestamp(3)
    /\ EdgeSet(graph) = {<<2, 3>>, <<3, 1>>}

\* str(idx) for idx >= 0: the decimal digits, most significant first
RECURSIVE Decimal(_)
Decimal(n) == IF n < 10 THEN <<n>> ELSE Decimal(n \div 10) \o <<n % 10>>

\* f"{prefix}_{idx}" as the sequence of the prefix, "_" and the digits of idx
IdString(p, idx) == <<p, "_">> \o Decimal(idx)

\* C15: a build of K documents with prefix p has exactly K nodes, the one
\* for position i holds the i-th document, and the identifier strings
\* p_0 .. p_(K-1) are pairwise different, whatever the documents.
C15_OneNodePerPosition ==
    built =>
        LET K == Len(documents) IN
        /\ graph.nodes = {node_id(prefix, i) : i \in 0..(K - 1)}
        /\ Cardinality(graph.nodes) = K
        /\ Cardinality({IdString(prefix, i) : i \in 0..(K - 1)}) = K
        /\ \A i \in 0..(K - 1) :
              /\ ~LacksDocument(graph, node_id(prefix, i))
              /\ DocumentOf(graph, node_id(prefix, i)) = documents[i + 1]

\* A build of three documents, the first and the last identical and the
\* middle one different.
C15_Witness ==
    /\ built
    /\ Len(documents) = 3
    /\ documents[1] = documents[3] /\ documents[1] # documents[2]
    /\ prefix = "piazza"
    /\ Cardinality(graph.nodes) = 3

\* C16: add_artifact(id, d) returns whether or not id exists; afterwards id
\* holds d, the other nodes' documents and the edges are as before, and a
\* second add_artifact(id, d) would leave the graph exactly as it is.
C16_IdempotentUpsert ==
    [][\A id \in 1..MaxNodes, d \in Docs :
          AddArtifactCall(id, d) =>
              /\ pc' = "returned" /\ error' = NoError
              /\ HasNode(graph', id) /\ graph'.document[id] = <<d>>
              /\ \A n \in Ids \ {id} : graph'.document[n] = graph.document[n]
              /\ graph'.nodes = graph.nodes \cup {id}
              /\ graph'.adj = graph.adj
              /\ add_artifact(graph', id, d) = graph']_vars

\* add_artifact(1, "B") has returned on a graph where identifier 2, which
\* can only be named once 1 exists, is an edge's target and holds a
\* document: identifier 1 existed before the call.
C16_Witness ==
    /\ op = "add_artifact" /\ pc = "returned" /\ arg = 1
    /\ graph.document[1] = <<Document("B", <<>>, <<>>)>>
    /\ graph.document[2] = <<Document("A", <<>>, <<>>)>>
    /\ <<1, 2>> \in EdgeSet(graph)

\* A step of neighbors or retrieve: the caller was idle and is handed a
\* list or an exception.
ReadStep == pc = "idle" /\ pc' \in {"returned", "raised"} /\ op' \in {"neighbors", "retrieve"}

\* The call that has just ended, made again on the graph as it is now.
SameCallAgain ==
    IF op = "neighbors" THEN neighbors(graph, arg)
    ELSE retrieve(graph, self_max_depth, arg, <<depth>>)

\* C17: a call of neighbors or retrieve, returning or raising, leaves the
\* nodes, documents, edges and the retriever's configuration as they were;
\* between calls no visited set, queue or result list is left; and the same
\* call made again on the unchanged graph ends the same way.
C17_ReadOnly ==
    /\ [][ReadStep => (graph' = graph /\ self_max_depth' = self_max_depth)]_vars
    /\ [](pc = "idle" => (visited = {} /\ queue = <<>> /\ docs = <<>> /\ result = <<>>))
    /\ []((NeighborsEnded \/ RetrieveEnded) =>
            /\ SameCallAgain.raised = (pc = "raised")
            /\ SameCallAgain.error = error
            /\ pc = "returned" => SameCallAgain.docs = result)

\* A retrieve that returned two documents from a graph with a cycle, and
\* the graph still has both edges.
C17_Witness ==
    /\ RetrieveReturned /\ Len(result) = 2
    /\ EdgeSet(graph) = {<<arg, order[1]>>, <<order[1], order[2]>>, <<order[2], arg>>}

QueryEnded == op = "_get_relevant_documents" /\ pc \in {"returned", "raised"}

\* C18: retrieve without an override traverses to the configured max_depth,
\* and _get_relevant_documents(query) ends as retrieve(query) with the
\* configured max_depth does: the same list or the same exception.
C18_ConfiguredDepth ==
    /\ [][\A id \in Queries :
             (Retrieve(id, None) /\ HasNode(graph, id)) =>
                 /\ depth' = self_max_depth
                 /\ Range(order') = Within(graph, id, self_max_depth) \ {id}]_vars
    /\ [](QueryEnded =>
            LET r == retrieve(graph, self_max_depth, arg, None) IN
            /\ r.raised = (pc = "raised")
            /\ r.error = error
            /\ pc = "returned" => (r.docs = result /\ depth = self_max_depth))

\* A retriever configured with max_depth=2 answered a query with a
\* document two edges away.
C18_Witness ==
    /\ QueryEnded /\ pc = "returned"
    /\ self_max_depth = 2
    /\ \E n \in Range(order) : Dist(graph, arg, n) = 2

\* C19: while process runs the temporary directory and every extracted file
\* exist; once extract_zip_to_temp has returned or let an exception go on,
\* from extraction or from process, the directory and its files are gone;
\* the value returned is the one process returned.
C19_TempDirLifetime ==
    /\ zpc = "processing" =>
          /\ temp_dir
          /\ {archive.members[i].name : i \in 1..Len(archive.members)} \subseteq temp_files
    /\ zpc \in {"returned", "raised"} => (~temp_dir /\ temp_files = {})
    /\ zpc = "returned" => (zvalue # <<>> /\ zresult = zvalue)
    /\ zpc = "raised" => zresult = <<>>

\* A call on a zip of two different members has returned the callback's value.
C19_Witness ==
    /\ zpc = "returned"
    /\ Len(archive.members) = 2
    /\ archive.members[1].name # archive.members[2].name
    /\ zresult = <<"r2">>

UsesDirectory(c) == c.persist_directory

\* The completed constructions that were given the persist_directory.
Persistent == SelectSeq(constructions, UsesDirectory)

\* C20: of the constructions given the persist_directory, the first one
\* builds the index from the documents and saves it; every later one loads
\* that index and neither builds nor saves.
C20_SavedOnceLoadedAfter ==
    /\ \A i \in 1..Len(Persistent) :
          IF i = 1
          THEN Persistent[i].did = <<"build", "save">>
          ELSE /\ Persistent[i].did = <<"load">>
               /\ Persistent[i].store = Persistent[1].store
    /\ Len(Persistent) >= 1 => persist_dir = Persistent[1].store

\* Three constructions with the directory, the exports replaced after the
\* first: the later two hold the index of the first.
C20_Witness ==
    /\ Len(Persistent) = 3
    /\ exports = 2
    /\ Persistent[1].store = <<IndexOf(1)>>
    /\ Persistent[3].did = <<"load">> /\ Persistent[3].store = <<IndexOf(1)>>


\* The nodes with an edge into n.
Pred(g, n) == {u \in Ids : n \in Succ(g, u)}

\* The nodes reached from n by one edge or more.
Descendants(g, n) == UNION {Within(g, v, NumIds) : v \in Succ(g, n)}

\* The non-empty groups of the document sequence.
Groups == {Group(i) : i \in 1..Len(documents)}

\* C25: a built graph is a disjoint union of simple directed paths: every
\* node has at most one outgoing and at most one incoming edge, no node
\* reaches itself (no cycle, no self-loop), and the number of edges is the
\* number of documents minus the number of non-empty groups.
C25_DisjointPaths ==
    built =>
        /\ \A n \in Ids :
              /\ Len(graph.adj[n]) <= 1
              /\ Cardinality(Pred(graph, n)) <= 1
              /\ n \notin Descendants(graph, n)
        /\ Cardinality(EdgeSet(graph)) = Len(documents) - Cardinality(Groups)
        /\ Len(edgeLog) = Cardinality(EdgeSet(graph))

\* Three documents in one group: a path of two edges through a middle node.
C25_Witness ==
    /\ built
    /\ Len(documents) = 3
    /\ Cardinality(Groups) = 1
    /\ \E n \in Ids : Cardinality(Pred(graph, n)) = 1 /\ Len(graph.adj[n]) = 1
    /\ Cardinality(EdgeSet(graph)) = 2

\* The timestamp entry of the document at position i: <<>> without the key.
Stamp(i) == documents[i].metadata.timestamp

\* C26: of two documents of one group with equal timestamp keys (both
\* lacking the key included), the one earlier in the input sequence comes
\* earlier in the chain; and a group of N documents has exactly N-1 edges
\* among its members whether or not keys repeat.
C26_TiesByInputOrder ==
    built =>
        \A i, j \in 1..Len(documents) :
            /\ (i < j /\ j \in Group(i) /\ Key(i) = Key(j)) => Precedes(i, j)
            /\ Cardinality({e \in EdgeSet(graph) : e[1] \in Group(i) /\ e[2] \in Group(i)})
                  = Cardinality(Group(i)) - 1

\* One group of three: the first two documents carry the timestamp "2", the
\* third "1"; the chain is third, first, second.
C26_Witness ==
    /\ built
    /\ Len(documents) = 3
    /\ Group(1) = {1, 2, 3}
    /\ Stamp(1) = << <<50>> >> /\ Stamp(2) = << <<50>> >> /\ Stamp(3) = << <<49>> >>
    /\ edgeLog = << <<3, 1>>, <<1, 2>> >>

NotSeed(n) == n # arg

\* The seed of the call has an edge to itself.
SelfLoop == arg \in Range(graph.adj[arg])

\* C27: for a seed of the graph whose out-neighbours all hold documents,
\* retrieve(s, max_depth=1) returns what neighbors(s) returns, in the same
\* order, when s has no edge to itself; when it has, neighbors(s) has one
\* entry more, the seed's own document at the seed's place among its
\* successors, and the other entries agree in order.
C27_DepthOneIsNeighbors ==
    (/\ RetrieveEnded /\ depth = 1 /\ HasNode(graph, arg)
     /\ \A n \in Range(graph.adj[arg]) : ~LacksDocument(graph, n)) =>
        LET nb == neighbors(graph, arg)
            others == SelectSeq(graph.adj[arg], NotSeed)
        IN /\ pc = "returned" /\ ~nb.raised
           /\ order = others
           /\ result = DocsOf(graph, others)
           /\ ~SelfLoop => result = nb.docs
           /\ SelfLoop =>
                 LET k == Pos(graph.adj[arg], arg) IN
                 /\ nb.docs[k] = DocumentOf(graph, arg)
                 /\ result = SubSeq(nb.docs, 1, k - 1) \o SubSeq(nb.docs, k + 1, Len(nb.docs))
                 /\ arg \notin Range(order)

\* retrieve at depth 1 has returned for a seed with an edge to itself and,
\* after it, an edge to another node that holds a different document.
C27_Witness ==
    /\ RetrieveReturned /\ depth = 1
    /\ Len(graph.adj[arg]) = 2 /\ graph.adj[arg][1] = arg
    /\ ~LacksDocument(graph, arg)
    /\ Len(result) = 1 /\ result[1] # DocumentOf(graph, arg)
    /\ Len(neighbors(graph, arg).docs) = 2

\* C28: retrieve(seed, max_depth=m) with m <= 0, for a seed of the graph,
\* returns the empty list and visits nothing but the seed, whatever
\* max_depth the retriever was configured with; the override 0 is the depth
\* used, and only a call without an override uses the configured depth.
C28_NonPositiveDepth ==
    [][\A id \in Ids :
          /\ \A m \in {<<-1>>, <<0>>} :
                (Retrieve(id, m) /\ HasNode(graph, id)) =>
                    /\ pc' = "returned"
                    /\ result' = <<>> /\ order' = <<>>
                    /\ visited' = {id}
                    /\ depth' = m[1]
          /\ (Retrieve(id, None) /\ HasNode(graph, id)) => depth' = self_max_depth
      ]_vars

\* retrieve with the override 0 has returned on a retriever configured with
\* depth 2, for a seed that has a successor.
C28_Witness ==
    /\ RetrieveReturned
    /\ depth = 0 /\ self_max_depth = 2
    /\ graph.adj[arg] # <<>>
    /\ result = <<>> /\ visited = {arg}

\* C29: add_artifact(id, d) on an identifier of the graph changes nothing
\* but the document stored at id: the node set, the edges into and out of
\* id, every successor list with its order, and the other nodes' documents
\* (also their absence) stay; add_relationship changes no stored document.
C29_UpsertFrame ==
    [][/\ \A id \in Ids, d \in Docs :
             (AddArtifactCall(id, d) /\ HasNode(graph, id)) =>
                 /\ graph'.nodes = graph.nodes
                 /\ Pred(graph', id) = Pred(graph, id)
                 /\ \A n \in Ids : graph'.adj[n] = graph.adj[n]
                 /\ EdgeSet(graph') = EdgeSet(graph) /\ edgeLog' = edgeLog
                 /\ \A n \in Ids \ {id} : graph'.document[n] = graph.document[n]
       /\ \A s, t \in Ids :
             AddRelationship(s, t) => graph'.document = graph.document
      ]_vars

\* add_artifact(2, "B") has returned; node 2 has an edge from node 1 and an
\* edge to node 3, which has no document, and node 1 lists 2 first.
C29_Witness ==
    /\ op = "add_artifact" /\ pc = "returned" /\ arg = 2
    /\ graph.document[2] = <<Document("B", <<>>, <<>>)>>
    /\ graph.adj[1] = <<2, 1>>
    /\ graph.adj[2] = <<3>>
    /\ LacksDocument(graph, 3)

\* The number of items on the first k pages served.
RECURSIVE ItemsBefore(_)
ItemsBefore(k) == IF k = 0 THEN 0 ELSE ItemsBefore(k - 1) + served[k].data

\* The pages served for endpoint e, in the order they were requested.
PagesOf(e) == SelectSeq(served, LAMBDA s : s.endpoint = e)

TypeRank(d) == CHOOSE e \in 1..3 : ResourceTypes[e] = d.resource_type

\* C21: when load returns, the requests were, for the assignments, then
\* the quizzes, then the announcements, the first URL and then each next
\* link until a page without one; the result holds exactly one document per
\* item of those pages, in page order and in item order within a page, the
\* assignment documents before the quiz documents before the announcement
\* documents.
C21_AllPagesInOrder ==
    cpc = "returned" =>
        /\ \A k \in 1..(Len(served) - 1) : served[k].endpoint <= served[k + 1].endpoint
        /\ \A e \in 1..3 :
              LET pages == PagesOf(e) IN
              /\ pages # <<>>
              /\ \A j \in 1..Len(pages) :
                    /\ pages[j].page = j
                    /\ pages[j].next = (j < Len(pages))
        /\ Len(cdocs) = ItemsBefore(Len(served))
        /\ \A k \in 1..Len(served) : \A i \in 1..served[k].data :
              cdocs[ItemsBefore(k - 1) + i]
                  = [resource_type |-> ResourceTypes[served[k].endpoint],
                     item |-> <<served[k].endpoint, served[k].page, i>>]
        /\ \A i, j \in 1..Len(cdocs) : i < j => TypeRank(cdocs[i]) <= TypeRank(cdocs[j])

\* load has returned four documents: two assignment pages of one item
\* each, an empty quiz page and two announcements on one page.
C21_Witness ==
    /\ cpc = "returned"
    /\ Len(served) = 4
    /\ served[1].next /\ served[1].data = 1 /\ served[2].data = 1
    /\ served[3].endpoint = 2 /\ served[3].data = 0
    /\ served[4].data = 2
    /\ Len(cdocs) = 4
    /\ cdocs[2].item = <<1, 2, 1>>
    /\ cdocs[4] = [resource_type |-> "announcement", item |-> <<3, 1, 2>>]

\* The response held has been through the branch on its status.
Handled == response # <<>> /\ cpc # "response"

\* The header is a digit string.
DigitString(h) == Truthy(h) /\ isdigit(h[1])

\* The number a digit string denotes (-1 when int() gives none).
ValueOf(h) == IF int(h[1]) = <<>> THEN -1 ELSE int(h[1])[1]

\* The delay the rule prescribes for the response r.
RuleDelay(r) ==
    IF DigitString(r.headers.retry_after) THEN ValueOf(r.headers.retry_after)
    ELSE IF r.headers.remaining = << <<"0">> >> /\ DigitString(r.headers.reset)
         THEN ValueOf(r.headers.reset)
         ELSE 0

\* C22: for every response _get receives, whatever its status, the
\* rate-limit rule runs exactly once and to its end, and time.sleep is
\* called once with the delay when the delay is positive and not at all
\* otherwise; the delay is Retry-After when that is a digit string, else
\* X-Rate-Limit-Reset when Remaining is "0" and Reset is a digit string,
\* else 0.
C22_RateLimitRule ==
    Handled =>
        /\ applied = 1
        /\ cerror # "ValueError"
        /\ Len(slept) <= 1
        /\ slept = IF RuleDelay(response[1]) > 0 THEN <<RuleDelay(response[1])>> ELSE <<>>

\* The _get call has ended: it returned the response or raised.
GetCompleted == cpc \in {"page", "raised"}

\* C30: _get ends only on a response whose status is not 429, by returning
\* it or by raising the HTTP error of its status; after a 429 response it
\* is back at the same request, and no 429 response is turned into an HTTP
\* error by raise_for_status.
C30_EndsOnFirstNon429 ==
    /\ GetCompleted =>
          /\ response[1].status # 429
          /\ cerror = IF cpc = "raised" THEN "HTTPError" ELSE "none"
          /\ (cpc = "raised") = (response[1].status >= 400)
    /\ (Handled /\ response[1].status = 429) =>
          /\ cpc = "get" /\ url = 1 /\ ~cparams
          /\ cerror = "none"

\* The words at which a query is split, in every spelling the alphabet has.
SeparatorWords == {<<"a", "n", "d">>, <<"t", "h", "e", "n">>, <<"T", "h", "e", "n">>}

\* The word that the word character at position i of q belongs to.
WordOf(q, i) ==
    LET a == CHOOSE j \in 1..i :
                 /\ \A k \in j..i : IsWordChar(q[k])
                 /\ j = 1 \/ ~IsWordChar(q[j - 1])
        b == CHOOSE j \in i..Len(q) :
                 /\ \A k \in i..j : IsWordChar(q[k])
                 /\ j = Len(q) \/ ~IsWordChar(q[j + 1])
    IN SubSeq(q, a, b)

\* Position i of q is part of a separator.
IsSeparator(q, i) ==
    \/ q[i] \in {"?", "nl"}
    \/ IsWordChar(q[i]) /\ WordOf(q, i) \in SeparatorWords

\* The part of q that starts at position s and runs up to the next separator.
PartAt(q, s) ==
    LET e == CHOOSE j \in s..Len(q) :
                 /\ \A k \in s..j : ~IsSeparator(q, k)
                 /\ j = Len(q) \/ IsSeparator(q, j + 1)
    IN SubSeq(q, s, e)

\* p without the spaces at its ends.
Trimmed(p) ==
    LET inked == {i \in 1..Len(p) : p[i] # " "} IN
    IF inked = {} THEN <<>>
    ELSE SubSeq(p, CHOOSE i \in inked : \A j \in inked : i <= j,
                   CHOOSE i \in inked : \A j \in inked : j <= i)

\* The sub-queries of q from position i on, left to right.
RECURSIVE SubQueriesFrom(_, _)
SubQueriesFrom(q, i) ==
    IF i > Len(q) THEN <<>>
    ELSE IF IsSeparator(q, i) THEN SubQueriesFrom(q, i + 1)
    ELSE (IF Trimmed(PartAt(q, i)) = <<>> THEN <<>> ELSE <<Trimmed(PartAt(q, i))>>)
             \o SubQueriesFrom(q, i + Len(PartAt(q, i)))

\* The page contents of hits, one per line.
DocLines(hits) ==
    IF hits = <<>> THEN <<>>
    ELSE [i \in 1..(2 * Len(hits) - 1) |-> IF i % 2 = 1 THEN hits[(i + 1) \div 2] ELSE "nl"]

\* Where the k-th "Sub-query: " of the text t stands.
MarkerAt(t, k) ==
    CHOOSE i \in 1..Len(t) :
        /\ t[i] = "Sub-query: "
        /\ Cardinality({j \in 1..i : t[j] = "Sub-query: "}) = k

AgentReturned == aop = "run_agent" /\ apc = "returned"

\* C23: run_agent(query), when it returns, has called retrieve of the
\* cached retriever once per sub-query, left to right, each with k = 5; the
\* sub-queries are the parts of the query between the words and/then (in
\* any case), "?" and newlines, trimmed, the empty ones dropped; the text
\* has one "Sub-query: " section per call, in the same order, that names
\* the sub-query and then lists the contents of the documents retrieved.
C23_OneRetrievePerSubQuery ==
    AgentReturned =>
        LET subs == SubQueriesFrom(aquery, 1)
            n == Cardinality({i \in 1..Len(text) : text[i] = "Sub-query: "})
        IN /\ Len(calls) = Len(subs)
           /\ \A i \in 1..Len(calls) :
                 /\ calls[i].query = subs[i]
                 /\ calls[i].k = 5
                 /\ calls[i].retriever = cache /\ cache # 0
           /\ n = Len(calls)
           /\ n = 0 => text = <<>>
           /\ \A k \in 1..n :
                 LET a == MarkerAt(text, k)
                     b == IF k = n THEN Len(text) ELSE MarkerAt(text, k + 1) - 3
                 IN /\ SubSeq(text, a, b)
                         = <<"Sub-query: ">> \o calls[k].query \o <<"nl">>
                               \o DocLines(calls[k].hits)
                    /\ k < n => SubSeq(text, b + 1, b + 2) = <<"nl", "nl">>
                    /\ k = 1 => a = 1

\* run_agent("x Then x") has returned: two calls, the first with two
\* documents and the second with none.
C23_Witness ==
    /\ AgentReturned
    /\ aquery = <<"x", " ", "T", "h", "e", "n", " ", "x">>
    /\ Len(calls) = 2
    /\ calls[1].hits = <<"A", "B">> /\ calls[2].hits = <<>>
    /\ text = <<"Sub-query: ", "x", "nl", "A", "nl", "B", "nl", "nl",
                "Sub-query: ", "x", "nl">>

\* A step that is a call of _get_retriever or run_agent.
AgentCall == apc = "idle" /\ apc' \in {"returned", "raised"}

BothSet == Truthy(env.CANVAS_PATH) /\ Truthy(env.PIAZZA_PATH)

\* C24: at most one VectorStoreRetriever is ever constructed, and the cache
\* holds it from then on; a call made with the cache filled returns the
\* cached instance without reading the environment; a call made with the
\* cache empty and CANVAS_PATH or PIAZZA_PATH unset or empty raises
\* RuntimeError and leaves the cache empty; a call made with the cache
\* empty and both set reads them and calls the constructor, whose instance
\* it caches and returns.
C24_ConstructedOnce ==
    /\ [](instances <= 1 /\ cache = instances)
    /\ [][AgentCall =>
            /\ (cache # 0) =>
                  /\ cache' = cache /\ instances' = instances
                  /\ ~env_read' /\ apc' = "returned"
                  /\ \A i \in 1..Len(calls') : calls'[i].retriever = cache
            /\ (cache = 0 /\ ~BothSet) =>
                  /\ apc' = "raised" /\ aerror' = "RuntimeError"
                  /\ cache' = 0 /\ instances' = 0
            /\ (cache = 0 /\ BothSet) =>
                  /\ env_read'
                  /\ \/ apc' = "returned" /\ cache' = 1 /\ instances' = 1
                     \/ apc' = "raised" /\ aerror' = "FileNotFoundError" /\ cache' = 0
      ]_vars

\* run_agent has returned from the cached retriever, without reading the
\* environment, while CANVAS_PATH is unset and PIAZZA_PATH is empty.
C24_Witness ==
    /\ AgentReturned
    /\ cache = 1 /\ instances = 1
    /\ ~env_read
    /\ env = [CANVAS_PATH |-> <<>>, PIAZZA_PATH |-> << <<>> >>]
    /\ Len(calls) = 2
====
